---- MODULE Spec2Model ----
(***************************************************************************)
(* A model of the research decision and synthesis pipeline of the          *)
(* agi-desktop-agent: the knowledge gate, entity triage, structured-output  *)
(* repair, source attribution, the intent router, the orchestrator, the    *)
(* session store and the memory-recall sort.                               *)
(*                                                                         *)
(* Text is modelled as a sequence of lexemes (strings of this module):     *)
(* punctuation, whitespace, numbers, literals, prose words, the markdown   *)
(* fence, and every other lexeme is a double-quoted JSON string literal.   *)
(* Names that the code compares character by character (entity names,      *)
(* contexts) are sequences of one-character strings.                       *)
(***************************************************************************)
EXTENDS Integers, Sequences, FiniteSets, TLC

\* ------------------------------------------------------------------ text

NL == "<nl>"
SP == "<sp>"
\* The two characters backslash, n: what str.replace('\n', '\\n') writes.
EscNL == "<esc-n>"
\* the markdown code-fence marker (three backquotes)
Fence == "<fence>"

Whitespace == {NL, SP}
Punct == {"{", "}", "[", "]", ",", ":"}
Literals == {"true", "false", "null"}
Numbers == {"0.5", "0.9", "7"}
Prose == {"Here", "json", "sorry"}
\* String literals that hold a raw line break, and the same with it escaped.
RawNLStrings == {"two<nl>lines"}
EscapedOf(t) == IF t = "two<nl>lines" THEN "two<esc-n>lines" ELSE t

IsString(t) == t \notin (Whitespace \cup Punct \cup Literals \cup Numbers
                         \cup Prose \cup {EscNL, Fence})

\* str.strip()
RECURSIVE LStrip(_)
LStrip(s) == IF s # <<>> /\ Head(s) \in Whitespace THEN LStrip(Tail(s)) ELSE s
RECURSIVE RStrip(_)
RStrip(s) ==
    IF s # <<>> /\ s[Len(s)] \in Whitespace
    THEN RStrip(SubSeq(s, 1, Len(s) - 1)) ELSE s
Strip(s) == RStrip(LStrip(s))

\* str.find(t) and str.rfind(t), 1-based, 0 for Python's -1
Find(s, t) ==
    IF \E i \in 1..Len(s) : s[i] = t
    THEN CHOOSE i \in 1..Len(s) : s[i] = t /\ \A j \in 1..(i - 1) : s[j] # t
    ELSE 0
RFind(s, t) ==
    IF \E i \in 1..Len(s) : s[i] = t
    THEN CHOOSE i \in 1..Len(s) : s[i] = t /\ \A j \in (i + 1)..Len(s) : s[j] # t
    ELSE 0

\* str.split(sep): the pieces between the occurrences of sep
RECURSIVE Split(_, _)
Split(s, sep) ==
    LET i == Find(s, sep) IN
    IF i = 0 THEN <<s>>
    ELSE <<SubSeq(s, 1, i - 1)>> \o Split(SubSeq(s, i + 1, Len(s)), sep)

\* sep.join(parts)
RECURSIVE Join(_, _)
Join(parts, sep) ==
    IF parts = <<>> THEN <<>>
    ELSE IF Len(parts) = 1 THEN parts[1]
    ELSE parts[1] \o <<sep>> \o Join(Tail(parts), sep)

RECURSIVE SelectLines(_)
SelectLines(lines) ==
    IF lines = <<>> THEN <<>>
    ELSE LET l == Strip(Head(lines)) IN
         IF l # <<>> /\ l[1] = Fence THEN SelectLines(Tail(lines))
         ELSE <<Head(lines)>> \o SelectLines(Tail(lines))

\* the lines of s that do not start (after strip) with the fence marker, joined again
DropFenceLines(s) == Join(SelectLines(Split(s, NL)), NL)

\* ------------------------------------------------------------------ JSON

JNull == [k |-> "null"]
JBool(b) == [k |-> "bool", b |-> b]
\* numbers in tenths
JNum(n) == [k |-> "num", n |-> n]
JStr(t) == [k |-> "str", s |-> t]
\* a string given by its characters
JName(chars) == [k |-> "str", chars |-> chars]
JArr(a) == [k |-> "arr", a |-> a]
JObj(m) == [k |-> "obj", m |-> m]
EmptyMap == [x \in {} |-> JNull]

NumOf(t) == CASE t = "0.5" -> 5 [] t = "0.9" -> 9 [] OTHER -> 70

Has(v, key) == v.k = "obj" /\ key \in DOMAIN v.m
\* dict.get(key, default)
Get(v, key, default) == IF key \in DOMAIN v.m THEN v.m[key] ELSE default
\* Python truthiness of a JSON value
Truthy(v) ==
    CASE v.k = "null" -> FALSE
      [] v.k = "bool" -> v.b
      [] v.k = "num" -> v.n # 0
      [] v.k = "str" -> (IF "s" \in DOMAIN v THEN v.s # "" ELSE v.chars # <<>>)
      [] v.k = "arr" -> v.a # <<>>
      [] v.k = "obj" -> DOMAIN v.m # {}

PFail == [ok |-> FALSE, v |-> JNull, i |-> 0]
POk(v, i) == [ok |-> TRUE, v |-> v, i |-> i]

RECURSIVE SkipWS(_, _)
SkipWS(s, i) == IF i <= Len(s) /\ s[i] \in Whitespace THEN SkipWS(s, i + 1) ELSE i

RECURSIVE ParseValue(_, _)
RECURSIVE ParseMembers(_, _, _)
RECURSIVE ParseElements(_, _, _)

\* A member list after "{" or after a ",": a key, ":", a value, then "," or "}".
ParseMembers(s, i, m) ==
    LET j == SkipWS(s, i) IN
    IF j > Len(s) \/ ~IsString(s[j]) \/ s[j] \in RawNLStrings THEN PFail
    ELSE LET c == SkipWS(s, j + 1) IN
         IF c > Len(s) \/ s[c] # ":" THEN PFail
         ELSE LET r == ParseValue(s, c + 1) IN
              IF ~r.ok THEN PFail
              ELSE LET e == SkipWS(s, r.i)
                       m2 == [x \in DOMAIN m \cup {s[j]} |->
                                 IF x = s[j] THEN r.v ELSE m[x]]
                   IN IF e > Len(s) THEN PFail
                      ELSE IF s[e] = "}" THEN POk(JObj(m2), e + 1)
                      ELSE IF s[e] = "," THEN ParseMembers(s, e + 1, m2)
                      ELSE PFail

ParseElements(s, i, a) ==
    LET r == ParseValue(s, i) IN
    IF ~r.ok THEN PFail
    ELSE LET e == SkipWS(s, r.i) IN
         IF e > Len(s) THEN PFail
         ELSE IF s[e] = "]" THEN POk(JArr(Append(a, r.v)), e + 1)
         ELSE IF s[e] = "," THEN ParseElements(s, e + 1, Append(a, r.v))
         ELSE PFail

ParseValue(s, i) ==
    LET j == SkipWS(s, i) IN
    IF j > Len(s) THEN PFail
    ELSE LET t == s[j] IN
         IF t = "{" THEN
             LET c == SkipWS(s, j + 1) IN
             IF c <= Len(s) /\ s[c] = "}" THEN POk(JObj(EmptyMap), c + 1)
             ELSE ParseMembers(s, j + 1, EmptyMap)
         ELSE IF t = "[" THEN
             LET c == SkipWS(s, j + 1) IN
             IF c <= Len(s) /\ s[c] = "]" THEN POk(JArr(<<>>), c + 1)
             ELSE ParseElements(s, j + 1, <<>>)
         ELSE IF t = "true" THEN POk(JBool(TRUE), j + 1)
         ELSE IF t = "false" THEN POk(JBool(FALSE), j + 1)
         ELSE IF t = "null" THEN POk(JNull, j + 1)
         ELSE IF t \in Numbers THEN POk(JNum(NumOf(t)), j + 1)
         ELSE IF IsString(t) /\ t \notin RawNLStrings THEN POk(JStr(t), j + 1)
         ELSE PFail

\* json.loads(s): ok = FALSE stands for JSONDecodeError
Loads(s) ==
    LET r == ParseValue(s, 1) IN
    IF r.ok /\ SkipWS(s, r.i) > Len(s) THEN [ok |-> TRUE, v |-> r.v]
    ELSE [ok |-> FALSE, v |-> JNull]

\* ------------------------------------------------- character strings

UpperChars == {"A", "B", "C", "D", "E", "F", "G", "H", "I", "J", "K", "L", "M",
               "N", "O", "P", "Q", "R", "S", "T", "U", "V", "W", "X", "Y", "Z"}
LowerChar(c) ==
    CASE c = "A" -> "a" [] c = "B" -> "b" [] c = "C" -> "c" [] c = "D" -> "d"
      [] c = "E" -> "e" [] c = "F" -> "f" [] c = "G" -> "g" [] c = "H" -> "h"
      [] c = "I" -> "i" [] c = "J" -> "j" [] c = "K" -> "k" [] c = "L" -> "l"
      [] c = "M" -> "m" [] c = "N" -> "n" [] c = "O" -> "o" [] c = "P" -> "p"
      [] c = "Q" -> "q" [] c = "R" -> "r" [] c = "S" -> "s" [] c = "T" -> "t"
      [] c = "U" -> "u" [] c = "V" -> "v" [] c = "W" -> "w" [] c = "X" -> "x"
      [] c = "Y" -> "y" [] c = "Z" -> "z" [] OTHER -> c

\* str.lower()
Lower(s) == [i \in 1..Len(s) |-> LowerChar(s[i])]

RECURSIVE LStripC(_)
LStripC(s) == IF s # <<>> /\ Head(s) = " " THEN LStripC(Tail(s)) ELSE s
RECURSIVE RStripC(_)
RStripC(s) ==
    IF s # <<>> /\ s[Len(s)] = " " THEN RStripC(SubSeq(s, 1, Len(s) - 1)) ELSE s
\* str.strip() on characters
StripC(s) == RStripC(LStripC(s))

\* str.replace(c, "")
RECURSIVE RemoveChar(_, _)
RemoveChar(s, c) ==
    IF s = <<>> THEN <<>>
    ELSE IF Head(s) = c THEN RemoveChar(Tail(s), c)
    ELSE <<Head(s)>> \o RemoveChar(Tail(s), c)

\* sub in s
Contains(s, sub) ==
    \E i \in 0..(Len(s) - Len(sub)) : \A j \in 1..Len(sub) : s[i + j] = sub[j]

\* str.split(): the words between runs of blanks
RECURSIVE Words(_, _, _)
Words(s, cur, acc) ==
    IF s = <<>> THEN (IF cur = <<>> THEN acc ELSE Append(acc, cur))
    ELSE IF Head(s) = " "
         THEN Words(Tail(s), <<>>, IF cur = <<>> THEN acc ELSE Append(acc, cur))
         ELSE Words(Tail(s), Append(cur, Head(s)), acc)
SplitWords(s) == Words(s, <<>>, <<>>)

S_real_time_data_processing == <<"r", "e", "a", "l", "-", "t", "i", "m", "e", " ", "d", "a", "t", "a", " ", "p", "r", "o", "c", "e", "s", "s", "i", "n", "g">>
S_real_time_processing == <<"r", "e", "a", "l", "-", "t", "i", "m", "e", " ", "p", "r", "o", "c", "e", "s", "s", "i", "n", "g">>
S_machine_learning == <<"m", "a", "c", "h", "i", "n", "e", " ", "l", "e", "a", "r", "n", "i", "n", "g">>
S_artificial_intelligence == <<"a", "r", "t", "i", "f", "i", "c", "i", "a", "l", " ", "i", "n", "t", "e", "l", "l", "i", "g", "e", "n", "c", "e">>
S_cloud_computing == <<"c", "l", "o", "u", "d", " ", "c", "o", "m", "p", "u", "t", "i", "n", "g">>
S_data_analytics == <<"d", "a", "t", "a", " ", "a", "n", "a", "l", "y", "t", "i", "c", "s">>
S_big_data == <<"b", "i", "g", " ", "d", "a", "t", "a">>
S_deep_learning == <<"d", "e", "e", "p", " ", "l", "e", "a", "r", "n", "i", "n", "g">>
S_natural_language_processing == <<"n", "a", "t", "u", "r", "a", "l", " ", "l", "a", "n", "g", "u", "a", "g", "e", " ", "p", "r", "o", "c", "e", "s", "s", "i", "n", "g">>
S_computer_vision == <<"c", "o", "m", "p", "u", "t", "e", "r", " ", "v", "i", "s", "i", "o", "n">>
S_iot == <<"i", "o", "t">>
S_blockchain == <<"b", "l", "o", "c", "k", "c", "h", "a", "i", "n">>
S_web3 == <<"w", "e", "b", "3">>
S_ai_ml == <<"a", "i", "/", "m", "l">>
S_ai == <<"a", "i">>
S_ml == <<"m", "l">>
S_quantum_computing == <<"q", "u", "a", "n", "t", "u", "m", " ", "c", "o", "m", "p", "u", "t", "i", "n", "g">>
S_edge_computing == <<"e", "d", "g", "e", " ", "c", "o", "m", "p", "u", "t", "i", "n", "g">>
S_neural_networks == <<"n", "e", "u", "r", "a", "l", " ", "n", "e", "t", "w", "o", "r", "k", "s">>
S_data_science == <<"d", "a", "t", "a", " ", "s", "c", "i", "e", "n", "c", "e">>
S_enterprise_software == <<"e", "n", "t", "e", "r", "p", "r", "i", "s", "e", " ", "s", "o", "f", "t", "w", "a", "r", "e">>
S_saas == <<"s", "a", "a", "s">>
S_apis == <<"a", "p", "i", "s">>
S_product_service == <<"p", "r", "o", "d", "u", "c", "t", "/", "s", "e", "r", "v", "i", "c", "e">>
S_technology == <<"t", "e", "c", "h", "n", "o", "l", "o", "g", "y">>
S_concept == <<"c", "o", "n", "c", "e", "p", "t">>
S_company == <<"c", "o", "m", "p", "a", "n", "y">>
S_person == <<"p", "e", "r", "s", "o", "n">>
S_real_time == <<"r", "e", "a", "l", "-", "t", "i", "m", "e">>
S_process == <<"p", "r", "o", "c", "e", "s", "s">>
S_data == <<"d", "a", "t", "a">>
S_sender == <<"s", "e", "n", "d", "e", "r">>
S_from == <<"f", "r", "o", "m">>
S_vc == <<"v", "c">>
S_investor == <<"i", "n", "v", "e", "s", "t", "o", "r">>
S_ventures == <<"v", "e", "n", "t", "u", "r", "e", "s">>
S_managing_director == <<"m", "a", "n", "a", "g", "i", "n", "g", " ", "d", "i", "r", "e", "c", "t", "o", "r">>
S_founder == <<"f", "o", "u", "n", "d", "e", "r">>
S_ceo == <<"c", "e", "o">>
S_director == <<"d", "i", "r", "e", "c", "t", "o", "r">>
S_portfolio == <<"p", "o", "r", "t", "f", "o", "l", "i", "o">>
S_invest == <<"i", "n", "v", "e", "s", "t">>
S_partner == <<"p", "a", "r", "t", "n", "e", "r">>
S_example == <<"e", "x", "a", "m", "p", "l", "e">>
S_DataFlow_AI == <<"D", "a", "t", "a", "F", "l", "o", "w", " ", "A", "I">>
S_Acme_Labs == <<"A", "c", "m", "e", "-", "L", "a", "b", "s">>
S_dataflow_ai == <<"d", "a", "t", "a", "f", "l", "o", "w", " ", "a", "i">>
S_Data_Flow_AI == <<"D", "a", "t", "a", "-", "F", "l", "o", "w", " ", "A", "I">>
S_DataFlowAI == <<" ", "D", "a", "t", "a", "F", "l", "o", "w", "A", "I", " ">>
S_acme_labs == <<"a", "c", "m", "e", " ", "l", "a", "b", "s">>
S_Acme == <<"A", "c", "m", "e">>
S_DataFlow == <<"D", "a", "t", "a", "F", "l", "o", "w">>
S_AI == <<"A", "I">>
S_Machine_Learning == <<"M", "a", "c", "h", "i", "n", "e", " ", " ", "L", "e", "a", "r", "n", "i", "n", "g">>
S_Real_Time_Data_Pipelines == <<"R", "e", "a", "l", "-", "T", "i", "m", "e", " ", "D", "a", "t", "a", " ", "P", "i", "p", "e", "l", "i", "n", "e", "s">>
S_Apex_Ventures == <<"A", "p", "e", "x", " ", "V", "e", "n", "t", "u", "r", "e", "s">>
S_Jane_Doe == <<"J", "a", "n", "e", " ", "D", "o", "e">>
S_empty == <<>>
S_Email_sender == <<"E", "m", "a", "i", "l", " ", "s", "e", "n", "d", "e", "r">>
S_Managing_Director_at_Apex == <<"M", "a", "n", "a", "g", "i", "n", "g", " ", "D", "i", "r", "e", "c", "t", "o", "r", " ", "a", "t", " ", "A", "p", "e", "x">>
S_A_portfolio_company == <<"A", " ", "p", "o", "r", "t", "f", "o", "l", "i", "o", " ", "c", "o", "m", "p", "a", "n", "y">>
S_mentioned_in_passing == <<"m", "e", "n", "t", "i", "o", "n", "e", "d", " ", "i", "n", " ", "p", "a", "s", "s", "i", "n", "g">>
S_VC_firm_the_investor == <<"V", "C", " ", "f", "i", "r", "m", ",", " ", "t", "h", "e", " ", "i", "n", "v", "e", "s", "t", "o", "r">>

S_organization == <<"o", "r", "g", "a", "n", "i", "z", "a", "t", "i", "o", "n">>

\* ------------------------------------------------------------ variables

VARIABLES
    \* entity triage (EmailIntelligenceAgent._prioritize_entities)
    recipient_company, tri_entities, tri_pc, tri_out,
    \* knowledge gate (EmailIntelligenceAgent.assess_knowledge)
    gate_entity, gate_resp, gate_pc, gate_ret, reasoning_steps,
    \* structured-output repair (MeetingAgent._parse_briefing_json)
    parse_content, parse_fix, parse_pc, parse_ret,
    \* source attribution (MeetingAgent._calculate_source_attribution)
    attr_interactions, attr_sources, attr_pc, attr_out,
    \* intent router (RouterAgent.classify)
    router_prompt, router_resp, router_pc, router_ret,
    \* orchestrator (AgentOrchestrator.route, AgentOrchestrator.process)
    route_prompt, route_resp, route_pc, route_class, route_i, route_results,
    route_log, route_ret,
    \* session store (SessionStore)
    ses_files, ses_used, ses_pending, ses_ret,
    \* memory recall (MemoryStore._sort_by_date)
    sort_records, sort_pc, sort_out,
    \* web search (LinkupWrapper.search)
    lk_query, lk_max_results, lk_provider, lk_pc, lk_ret,
    \* email pipeline (EmailIntelligenceAgent.analyze_email, research_all_entities)
    em_entities, em_pc, em_todo, em_run, em_events, em_ret,
    \* memory recall (MemoryStore.get_company_context)
    rc_company, rc_cache, rc_google, rc_now, rc_pc, rc_calls, rc_out,
    \* meeting pipeline (MeetingAgent.prepare_briefing)
    br_context, br_pc, br_news, br_industry, br_events, br_ret,
    \* reply post-processing (EmailIntelligenceAgent._improve_draft)
    dr_draft, dr_pc, dr_improved, dr_word_count, dr_ret,
    \* the parse cascade, attempt by attempt (MeetingAgent._parse_briefing_json)
    cas_content, cas_fix, cas_pc, cas_log, cas_ret,
    \* relevance filter and thread dedupe (MemoryStore._filter_emails, _filter_conversations, _dedupe_emails)
    rk_kind, rk_records, rk_now, rk_pc, rk_out,
    \* _synthesize_briefing inside prepare_briefing: the memory context, the web sources, the replies of the two chat calls, the position, the briefing and the result
    syn_context, syn_sources, syn_reply, syn_fix, syn_pc, syn_briefing, syn_ret

triVars == <<recipient_company, tri_entities, tri_pc, tri_out>>
gateVars == <<gate_entity, gate_resp, gate_pc, gate_ret, reasoning_steps>>
parseVars == <<parse_content, parse_fix, parse_pc, parse_ret>>
attrVars == <<attr_interactions, attr_sources, attr_pc, attr_out>>
routerVars == <<router_prompt, router_resp, router_pc, router_ret>>
routeVars == <<route_prompt, route_resp, route_pc, route_class, route_i,
               route_results, route_log, route_ret>>
sesVars == <<ses_files, ses_used, ses_pending, ses_ret>>
sortVars == <<sort_records, sort_pc, sort_out>>
lkVars == <<lk_query, lk_max_results, lk_provider, lk_pc, lk_ret>>
emVars == <<em_entities, em_pc, em_todo, em_run, em_events, em_ret>>
rcVars == <<rc_company, rc_cache, rc_google, rc_now, rc_pc, rc_calls, rc_out>>
brVars == <<br_context, br_pc, br_news, br_industry, br_events, br_ret>>
drVars == <<dr_draft, dr_pc, dr_improved, dr_word_count, dr_ret>>
casVars == <<cas_content, cas_fix, cas_pc, cas_log, cas_ret>>
rkVars == <<rk_kind, rk_records, rk_now, rk_pc, rk_out>>
synVars == <<syn_context, syn_sources, syn_reply, syn_fix, syn_pc, syn_briefing, syn_ret>>
vars == <<triVars, gateVars, parseVars, attrVars, routerVars, routeVars, sesVars,
          sortVars, lkVars, emVars, rcVars, brVars, drVars, casVars, rkVars, synVars>>

\* What a component's variables hold while another component's specification runs.
TriIdle ==
    /\ recipient_company = <<>> /\ tri_entities = <<>>
    /\ tri_pc = "idle" /\ tri_out = [critical |-> <<>>, validation |-> <<>>, skip |-> <<>>]
GateIdle ==
    /\ gate_entity = [name |-> <<>>] /\ gate_resp = [kind |-> "none"]
    /\ gate_pc = "idle" /\ gate_ret = [k |-> "none"] /\ reasoning_steps = <<>>

ParseIdle ==
    /\ parse_content = <<>> /\ parse_fix = [kind |-> "none"]
    /\ parse_pc = "idle" /\ parse_ret = [k |-> "none"]

AttrIdle ==
    /\ attr_interactions = 0 /\ attr_sources = 0
    /\ attr_pc = "idle" /\ attr_out = [memory_pct |-> 0, linkup_pct |-> 0, llm_pct |-> 0]

RouterIdle ==
    /\ router_prompt = <<>> /\ router_resp = [kind |-> "none"]
    /\ router_pc = "idle" /\ router_ret = [k |-> "null"]

RouteIdle ==
    /\ route_prompt = <<>> /\ route_resp = [kind |-> "none"]
    /\ route_pc = "idle" /\ route_class = [k |-> "null"] /\ route_i = 0
    /\ route_results = <<>> /\ route_log = <<>> /\ route_ret = [k |-> "null"]

SesIdle ==
    /\ ses_files = <<>> /\ ses_used = {} /\ ses_pending = <<>>
    /\ ses_ret = [op |-> "none"]

SortIdle ==
    /\ sort_records = <<>> /\ sort_pc = "idle"
    /\ sort_out = [raised |-> "none", value |-> <<>>]

LinkupIdle ==
    /\ lk_query = "" /\ lk_max_results = 0 /\ lk_provider = [kind |-> "none"]
    /\ lk_pc = "idle" /\ lk_ret = [k |-> "none"]

EmailIdle ==
    /\ em_entities = <<>> /\ em_pc = "idle" /\ em_todo = <<>> /\ em_run = <<>>
    /\ em_events = <<>> /\ em_ret = [k |-> "none"]

RecallIdle ==
    /\ rc_company = <<>> /\ rc_cache = <<>> /\ rc_google = <<>> /\ rc_now = 0
    /\ rc_pc = "idle" /\ rc_calls = <<>> /\ rc_out = <<>>

BriefingIdle ==
    /\ br_context = <<>> /\ br_pc = "idle" /\ br_news = <<>> /\ br_industry = <<>>
    /\ br_events = <<>> /\ br_ret = [k |-> "none"]

DraftIdle ==
    /\ dr_draft = <<>>
    /\ dr_pc = "idle"
    /\ dr_improved = [k |-> "none"]
    /\ dr_word_count = 0
    /\ dr_ret = [k |-> "none"]

CascadeIdle ==
    /\ cas_content = <<>>
    /\ cas_fix = [kind |-> "none"]
    /\ cas_pc = "idle"
    /\ cas_log = <<>>
    /\ cas_ret = [k |-> "none"]

RankIdle ==
    /\ rk_kind = "none"
    /\ rk_records = <<>>
    /\ rk_now = 0
    /\ rk_pc = "idle"
    /\ rk_out = [op |-> "none"]

SynthesisIdle ==
    /\ syn_context = <<>>
    /\ syn_sources = <<>>
    /\ syn_reply = [kind |-> "none"]
    /\ syn_fix = [kind |-> "none"]
    /\ syn_pc = "idle"
    /\ syn_briefing = <<>>
    /\ syn_ret = [k |-> "none"]

notTri == <<gateVars, parseVars, attrVars, routerVars, routeVars, sesVars, sortVars, lkVars, emVars, rcVars, brVars, drVars, casVars, rkVars, synVars>>
notGate == <<triVars, parseVars, attrVars, routerVars, routeVars, sesVars, sortVars, lkVars, emVars, rcVars, brVars, drVars, casVars, rkVars, synVars>>
notParse == <<triVars, gateVars, attrVars, routerVars, routeVars, sesVars, sortVars, lkVars, emVars, rcVars, brVars, drVars, casVars, rkVars, synVars>>
notAttr == <<triVars, gateVars, parseVars, routerVars, routeVars, sesVars, sortVars, lkVars, emVars, rcVars, brVars, drVars, casVars, rkVars, synVars>>
notRouter == <<triVars, gateVars, parseVars, attrVars, routeVars, sesVars, sortVars, lkVars, emVars, rcVars, brVars, drVars, casVars, rkVars, synVars>>
notRoute == <<triVars, gateVars, parseVars, attrVars, routerVars, sesVars, sortVars, lkVars, emVars, rcVars, brVars, drVars, casVars, rkVars, synVars>>
notSes == <<triVars, gateVars, parseVars, attrVars, routerVars, routeVars, sortVars, lkVars, emVars, rcVars, brVars, drVars, casVars, rkVars, synVars>>
notSort == <<triVars, gateVars, parseVars, attrVars, routerVars, routeVars, sesVars, lkVars, emVars, rcVars, brVars, drVars, casVars, rkVars, synVars>>
notLinkup == <<triVars, gateVars, parseVars, attrVars, routerVars, routeVars, sesVars, sortVars, emVars, rcVars, brVars, drVars, casVars, rkVars, synVars>>
notEmail == <<triVars, gateVars, parseVars, attrVars, routerVars, routeVars, sesVars, sortVars, lkVars, rcVars, brVars, drVars, casVars, rkVars, synVars>>
notRecall == <<triVars, gateVars, parseVars, attrVars, routerVars, routeVars, sesVars, sortVars, lkVars, emVars, brVars, drVars, casVars, rkVars, synVars>>
notBriefing == <<triVars, gateVars, parseVars, attrVars, routerVars, routeVars, sesVars, sortVars, lkVars, emVars, rcVars, drVars, casVars, rkVars, synVars>>
notDraft == <<triVars, gateVars, parseVars, attrVars, routerVars, routeVars, sesVars, sortVars, lkVars, emVars, rcVars, brVars, casVars, rkVars, synVars>>
notCascade == <<triVars, gateVars, parseVars, attrVars, routerVars, routeVars, sesVars, sortVars, lkVars, emVars, rcVars, brVars, drVars, rkVars, synVars>>
notRank == <<triVars, gateVars, parseVars, attrVars, routerVars, routeVars, sesVars, sortVars, lkVars, emVars, rcVars, brVars, drVars, casVars, synVars>>
notSynthesis == <<triVars, gateVars, parseVars, attrVars, routerVars, routeVars, sesVars, sortVars, lkVars, emVars, rcVars, brVars, drVars, casVars, rkVars>>

\* ------------------------------------------------------- entity triage

GENERIC_TERMS ==
    {S_real_time_data_processing, S_real_time_processing, S_machine_learning,
     S_artificial_intelligence, S_cloud_computing, S_data_analytics, S_big_data,
     S_deep_learning, S_natural_language_processing, S_computer_vision, S_iot,
     S_blockchain, S_web3, S_ai_ml, S_ai, S_ml, S_quantum_computing,
     S_edge_computing, S_neural_networks, S_data_science, S_enterprise_software,
     S_saas, S_apis}

\* entity.get(field, "")
EGet(entity, field) == IF field \in DOMAIN entity THEN entity[field] ELSE <<>>

_is_generic_term(entity_name, entity_type) ==
    LET entity_lower == StripC(Lower(entity_name)) IN
    \/ entity_lower \in GENERIC_TERMS
    \/ /\ entity_type \in {S_product_service, S_technology, S_concept}
       /\ \E generic \in GENERIC_TERMS :
              \/ entity_lower = generic
              \/ SplitWords(entity_lower) = SplitWords(generic)
    \/ /\ Contains(entity_lower, S_real_time)
       /\ (Contains(entity_lower, S_process) \/ Contains(entity_lower, S_data))

\* A self-reference test that compares the names without removing blanks and hyphens.
SelfReferenceExactOnly(entity_name, recipient) ==
    StripC(Lower(entity_name)) = StripC(Lower(recipient))

_is_self_reference(entity_name, recipient) ==
    LET entity_lower == StripC(Lower(entity_name))
        recipient_lower == StripC(Lower(recipient))
        entity_clean == RemoveChar(RemoveChar(entity_lower, " "), "-")
        recipient_clean == RemoveChar(RemoveChar(recipient_lower, " "), "-")
    IN \/ entity_lower = recipient_lower
       \/ entity_clean = recipient_clean

PersonKeywords == {S_managing_director, S_founder, S_ceo, S_director, S_investor}
ValidationKeywords == {S_portfolio, S_invest, S_partner, S_example}

IsSenderOrg(entity_name, entity_type, context) ==
    /\ \/ Contains(context, S_sender) \/ Contains(context, S_from)
       \/ Contains(context, S_vc) \/ Contains(context, S_investor)
    /\ \/ entity_type = S_company
       \/ Contains(Lower(entity_name), S_ventures)

IsKeyPerson(entity_type, context) ==
    /\ entity_type = S_person
    /\ \E keyword \in PersonKeywords : Contains(context, keyword)

IsPortfolio(entity_type, context) ==
    /\ Contains(context, S_portfolio) \/ Contains(entity_type, S_company)
    /\ \E keyword \in ValidationKeywords : Contains(context, keyword)

AddTo(acc, tier, entity) == [acc EXCEPT ![tier] = Append(@, entity)]

\* The loop body with the continue after the sender-organisation append left out.
PrioritizeStepNoContinue(entity, recipient, acc) ==
    LET entity_name == EGet(entity, "name")
        entity_type == EGet(entity, "type")
        context == Lower(EGet(entity, "context"))
    IN IF _is_self_reference(entity_name, recipient) THEN AddTo(acc, "skip", entity)
       ELSE IF _is_generic_term(entity_name, entity_type) THEN AddTo(acc, "skip", entity)
       ELSE LET a1 == IF IsSenderOrg(entity_name, entity_type, context)
                      THEN AddTo(acc, "critical", entity) ELSE acc
            IN IF IsKeyPerson(entity_type, context) THEN AddTo(a1, "critical", entity)
               ELSE AddTo(a1, "validation", entity)

\* One iteration of the loop over the entities.
PrioritizeStep(entity, recipient, acc) ==
    LET entity_name == EGet(entity, "name")
        entity_type == EGet(entity, "type")
        context == Lower(EGet(entity, "context"))
    IN IF _is_self_reference(entity_name, recipient) THEN AddTo(acc, "skip", entity)
       ELSE IF _is_generic_term(entity_name, entity_type) THEN AddTo(acc, "skip", entity)
       ELSE IF IsSenderOrg(entity_name, entity_type, context)
            THEN AddTo(acc, "critical", entity)
       ELSE IF IsKeyPerson(entity_type, context) THEN AddTo(acc, "critical", entity)
       ELSE IF IsPortfolio(entity_type, context) THEN AddTo(acc, "validation", entity)
       ELSE AddTo(acc, "validation", entity)

RECURSIVE PrioritizeFrom(_, _, _)
PrioritizeFrom(entities, recipient, acc) ==
    IF entities = <<>> THEN acc
    ELSE PrioritizeFrom(Tail(entities), recipient,
                        PrioritizeStep(Head(entities), recipient, acc))

NoTiers == [critical |-> <<>>, validation |-> <<>>, skip |-> <<>>]
_prioritize_entities(entities, recipient) == PrioritizeFrom(entities, recipient, NoTiers)

\* The entities the triage is run on: one or more for every rule, with
\* self-references written in several ways, missing fields and an empty name.
TriageEntities ==
    {[name |-> S_DataFlow_AI, type |-> S_company, context |-> S_Email_sender],
     [name |-> S_Data_Flow_AI, type |-> S_person, context |-> S_Managing_Director_at_Apex],
     [name |-> S_DataFlowAI, type |-> S_organization],
     [name |-> S_acme_labs, type |-> S_company, context |-> S_A_portfolio_company],
     [name |-> S_AI, type |-> S_concept, context |-> S_mentioned_in_passing],
     [name |-> S_Machine_Learning, type |-> S_technology],
     [name |-> S_Real_Time_Data_Pipelines, type |-> S_company, context |-> S_Email_sender],
     [name |-> S_Apex_Ventures, type |-> S_organization, context |-> S_VC_firm_the_investor],
     [name |-> S_Acme, type |-> S_company, context |-> S_Email_sender],
     [name |-> S_Jane_Doe, type |-> S_person, context |-> S_Managing_Director_at_Apex],
     [name |-> S_DataFlow, type |-> S_company, context |-> S_A_portfolio_company],
     [name |-> S_Acme],
     [type |-> S_person, context |-> S_mentioned_in_passing],
     [name |-> S_empty, type |-> S_company, context |-> S_mentioned_in_passing]}

Recipients == {S_DataFlow_AI, S_Acme_Labs}

MaxEntities == 2

SeqsUpTo(S, n) == UNION {[1..k -> S] : k \in 0..n}

TriInit ==
    /\ recipient_company \in Recipients
    /\ tri_entities \in SeqsUpTo(TriageEntities, MaxEntities)
    /\ tri_pc = "ready"
    /\ tri_out = NoTiers
    /\ GateIdle /\ ParseIdle /\ AttrIdle /\ RouterIdle /\ RouteIdle /\ SesIdle /\ SortIdle /\ LinkupIdle /\ EmailIdle /\ RecallIdle /\ BriefingIdle /\ DraftIdle /\ CascadeIdle /\ RankIdle /\ SynthesisIdle

PrioritizeEntities ==
    /\ tri_pc = "ready"
    /\ tri_out' = _prioritize_entities(tri_entities, recipient_company)
    /\ tri_pc' = "done"
    /\ UNCHANGED <<recipient_company, tri_entities, notTri>>

TriNext == PrioritizeEntities

SpecTriage == TriInit /\ [][TriNext]_vars

Range(s) == {s[i] : i \in 1..Len(s)}
Count(e, s) == Cardinality({i \in 1..Len(s) : s[i] = e})

Unclassified(entity, recipient) ==
    LET entity_name == EGet(entity, "name")
        entity_type == EGet(entity, "type")
        context == Lower(EGet(entity, "context"))
    IN /\ ~_is_self_reference(entity_name, recipient)
       /\ ~_is_generic_term(entity_name, entity_type)
       /\ ~IsSenderOrg(entity_name, entity_type, context)
       /\ ~IsKeyPerson(entity_type, context)
       /\ ~IsPortfolio(entity_type, context)

\* C2: the three lists _prioritize_entities returns partition its input: every
\* input entity (duplicates, empty names and missing fields included) is in
\* exactly one list as often as it is in the input, the lengths add up to the
\* input's, and an entity no rule matches is in validation.
C2_TriagePartition ==
    tri_pc = "done" =>
        /\ Len(tri_out.critical) + Len(tri_out.validation) + Len(tri_out.skip)
               = Len(tri_entities)
        /\ \A e \in Range(tri_entities) :
               /\ Count(e, tri_out.critical) + Count(e, tri_out.validation)
                      + Count(e, tri_out.skip) = Count(e, tri_entities)
               /\ Cardinality({t \in {"critical", "validation", "skip"} :
                                  e \in Range(tri_out[t])}) = 1
               /\ Unclassified(e, recipient_company) => e \in Range(tri_out.validation)
        /\ \A t \in {"critical", "validation", "skip"} :
               Range(tri_out[t]) \subseteq Range(tri_entities)

C2_Witness ==
    /\ tri_pc = "done"
    /\ tri_entities = <<[name |-> S_Acme], [name |-> S_Acme]>>
    /\ tri_out.validation = tri_entities

NameEqualUpTo(a, b) ==
    RemoveChar(RemoveChar(Lower(a), " "), "-") = RemoveChar(RemoveChar(Lower(b), " "), "-")

\* C8: an entity whose name equals recipient_company up to letter case, blanks
\* and hyphens is in skip and in neither critical nor validation, whatever its
\* type and context.
C8_SelfReferenceSkipped ==
    tri_pc = "done" =>
        \A e \in Range(tri_entities) :
            NameEqualUpTo(EGet(e, "name"), recipient_company) =>
                /\ e \in Range(tri_out.skip)
                /\ e \notin Range(tri_out.critical)
                /\ e \notin Range(tri_out.validation)

C8_Witness ==
    /\ tri_pc = "done"
    /\ recipient_company = S_DataFlow_AI
    /\ \E i \in 1..Len(tri_entities) :
           /\ EGet(tri_entities[i], "name") = S_Data_Flow_AI
           /\ IsKeyPerson(EGet(tri_entities[i], "type"),
                          Lower(EGet(tri_entities[i], "context")))
           /\ tri_entities[i] \in Range(tri_out.skip)

\* ------------------------------------------------------ knowledge gate

\* The reply of self.groq.chat: it raises, or it returns a dict with an
\* error (the empty string: none) and a content that is absent, None or text.
NoContent == [k |-> "absent"]
NoneContent == [k |-> "none"]
Text(t) == [k |-> "text", t |-> t]
Raises == [kind |-> "raise"]
Reply(error, content) == [kind |-> "dict", error |-> error, content |-> content]

DefaultVerdict(reasoning, entity_name) ==
    JObj([needs_search |-> JBool(TRUE), reasoning |-> JStr(reasoning),
          confidence |-> JNum(5), known_info |-> JStr(""),
          search_query |-> JName(entity_name)])

\* content.split(fence)[1], and a leading "json" cut off
GateUnfence(content) ==
    IF content # <<>> /\ content[1] = Fence
    THEN LET inner == Split(content, Fence)[2] IN
         IF inner # <<>> /\ inner[1] = "json" THEN Tail(inner) ELSE inner
    ELSE content

\* assess_knowledge(entity, email_context): the value returned and the
\* reasoning steps added. No path raises: the body is one try with a final
\* except Exception.
AssessKnowledge(entity, resp) ==
    LET entity_name == EGet(entity, "name") IN
    IF resp.kind = "raise"
    THEN [v |-> DefaultVerdict("Error occurred, defaulting to search", entity_name),
          log |-> <<"error">>]
    ELSE IF resp.error # ""
    THEN [v |-> DefaultVerdict("Assessment failed, defaulting to search", entity_name),
          log |-> <<"warning">>]
    ELSE IF resp.content.k = "none"
    \* None.strip(): AttributeError, caught by except Exception
    THEN [v |-> DefaultVerdict("Error occurred, defaulting to search", entity_name),
          log |-> <<"error">>]
    ELSE LET content == IF resp.content.k = "absent" THEN <<"{", "}">>
                        ELSE resp.content.t
             r == Loads(Strip(GateUnfence(Strip(content))))
         IN IF r.ok THEN [v |-> r.v, log |-> <<>>]
            ELSE [v |-> DefaultVerdict("Parsing error, defaulting to search", entity_name),
                  log |-> <<"warning">>]

Verdict(ns) ==
    <<"{", "needs_search", ":", ns, ",", "reasoning", ":", "well known", ",",
      "confidence", ":", "0.9", "}">>

GateBodies ==
    {Verdict("true"), Verdict("false"), Verdict("null"),
     <<"{", NL, SP, "needs_search", ":", SP, "false", ",", NL, SP, "confidence", ":",
       SP, "0.9", NL, "}">>,
     <<"{", "needs_search", ":", "true", ",", "confidence", ":", "0.9">>,
     <<"{", "needs_search", ":", "false", ",", "}">>,
     <<"{", "reasoning", ":", "two<nl>lines", "}">>,
     <<"{", "reasoning", ":", "well known", "}">>,
     <<"{", "}">>, <<"[", "]">>, <<"[", "true", "]">>, <<"7">>, <<"null">>, <<"false">>,
     <<"well known">>, <<"sorry">>, <<>>}

\* A body as it is, in a fence with or without the json tag, or with prose around it.
Wrappings(body) ==
    {body,
     <<Fence, "json", NL>> \o body \o <<NL, Fence>>,
     <<Fence, NL>> \o body \o <<NL, Fence>>,
     <<"Here", SP>> \o body,
     <<SP, NL>> \o body \o <<NL>>}

GateContents == UNION {Wrappings(b) : b \in GateBodies}

GateReplies ==
    {Raises}
    \cup {Reply(e, c) : e \in {"", "rate limit"},
                        c \in {NoContent, NoneContent} \cup {Text(t) : t \in GateContents}}

GateEntities ==
    {[name |-> S_Acme, type |-> S_company, context |-> S_Email_sender],
     [type |-> S_person, context |-> S_mentioned_in_passing]}

GateInit ==
    /\ gate_entity \in GateEntities
    /\ gate_resp \in GateReplies
    /\ gate_pc = "ready"
    /\ gate_ret = [k |-> "none"]
    /\ reasoning_steps = <<>>
    /\ TriIdle /\ ParseIdle /\ AttrIdle /\ RouterIdle /\ RouteIdle /\ SesIdle /\ SortIdle /\ LinkupIdle /\ EmailIdle /\ RecallIdle /\ BriefingIdle /\ DraftIdle /\ CascadeIdle /\ RankIdle /\ SynthesisIdle

assess_knowledge ==
    /\ gate_pc = "ready"
    /\ LET out == AssessKnowledge(gate_entity, gate_resp) IN
           /\ gate_ret' = out.v
           /\ reasoning_steps' = reasoning_steps \o out.log
    /\ gate_pc' = "done"
    /\ UNCHANGED <<gate_entity, gate_resp, notGate>>

GateNext == assess_knowledge

SpecGate == GateInit /\ [][GateNext]_vars

\* The reply is one the gate cannot take a verdict from: the call raised, the
\* reply carries an error, or its content does not parse to an object with a
\* Boolean needs_search.
GateFailure(resp) ==
    \/ resp.kind = "raise"
    \/ resp.error # ""
    \/ resp.content.k # "text"
    \/ LET r == Loads(Strip(GateUnfence(Strip(resp.content.t)))) IN
       ~(r.ok /\ Has(r.v, "needs_search") /\ r.v.m["needs_search"].k = "bool")

FailOpen(v) ==
    /\ Has(v, "needs_search") /\ v.m["needs_search"] = JBool(TRUE)
    /\ Has(v, "confidence") /\ v.m["confidence"] = JNum(5)

\* C1: when the LLM service raises, returns a non-empty error or returns
\* content that cannot be parsed into a verdict, assess_knowledge returns a
\* verdict with needs_search = true and confidence = 0.5.
C1_GateFailsOpen ==
    (gate_pc = "done" /\ GateFailure(gate_resp)) => FailOpen(gate_ret)

\* The part of C1 the code keeps: an upstream error, an exception or a JSON
\* decode error yields the default verdict.
C1_DecodeErrorFailsOpen ==
    (gate_pc = "done" /\ (gate_resp.kind = "raise" \/ gate_resp.error # ""
                          \/ gate_resp.content.k = "none"
                          \/ (gate_resp.content.k = "text"
                              /\ ~Loads(Strip(GateUnfence(Strip(gate_resp.content.t)))).ok)))
        => FailOpen(gate_ret)

\* -------------------------------------------- structured-output repair

\* re.sub(r',\s*([}\]])', r'\1', s): a comma, the whitespace after it and a
\* closing brace or bracket become the brace or bracket.
RECURSIVE RemoveTrailingCommas(_)
RemoveTrailingCommas(s) ==
    IF s = <<>> THEN <<>>
    ELSE LET j == SkipWS(s, 2) IN
         IF Head(s) = "," /\ j <= Len(s) /\ s[j] \in {"}", "]"}
         THEN <<s[j]>> \o RemoveTrailingCommas(SubSeq(s, j + 1, Len(s)))
         ELSE <<Head(s)>> \o RemoveTrailingCommas(Tail(s))

\* s.replace('\n', '\\n'): every line break, inside a string literal or not
EscapeNewlines(s) ==
    [i \in 1..Len(s) |-> IF s[i] = NL THEN EscNL ELSE EscapedOf(s[i])]

\* s[start:end + 1] with 1-based start and end
Slice(s, start, end) == SubSeq(s, start, end)

EmptyBriefing ==
    JObj([company_overview |-> JStr(""), past_context |-> JStr(""),
          recent_news |-> JStr(""), talking_points |-> JArr(<<>>),
          risks_and_notes |-> JStr("")])

\* The fourth attempt: what the corrective chat call yields, ok = FALSE when
\* the try block ends in the except or finds no braces.
FixAttempt(fix) ==
    IF fix.kind = "raise" THEN [ok |-> FALSE, v |-> JNull]
    ELSE LET c0 == IF fix.content.k = "text" THEN Strip(fix.content.t) ELSE <<>>
             fix_content == IF c0 # <<>> /\ c0[1] = Fence THEN DropFenceLines(c0) ELSE c0
             fix_start == Find(fix_content, "{")
             fix_end == RFind(fix_content, "}")
         IN IF fix_start # 0 /\ fix_end # 0
            THEN Loads(Slice(fix_content, fix_start, fix_end))
            ELSE [ok |-> FALSE, v |-> JNull]

\* _parse_briefing_json(content): the value returned, the attempt that
\* produced it (5: the empty structure) and the number of corrective calls.
ParseBriefingJson(content, fix) ==
    LET c0 == Strip(content)
        cleaned == IF c0 # <<>> /\ c0[1] = Fence THEN DropFenceLines(c0) ELSE c0
        first == Loads(cleaned)
        start == Find(cleaned, "{")
        end == RFind(cleaned, "}")
        second == IF start # 0 /\ end # 0 /\ end > start
                  THEN Loads(Slice(cleaned, start, end))
                  ELSE [ok |-> FALSE, v |-> JNull]
        third == IF start # 0 /\ end # 0
                 THEN Loads(EscapeNewlines(RemoveTrailingCommas(Slice(cleaned, start, end))))
                 ELSE [ok |-> FALSE, v |-> JNull]
        fourth == FixAttempt(fix)
    IN IF first.ok THEN [v |-> first.v, stage |-> 1, fix_calls |-> 0]
       ELSE IF second.ok THEN [v |-> second.v, stage |-> 2, fix_calls |-> 0]
       ELSE IF third.ok THEN [v |-> third.v, stage |-> 3, fix_calls |-> 0]
       ELSE IF fourth.ok THEN [v |-> fourth.v, stage |-> 4, fix_calls |-> 1]
       ELSE [v |-> EmptyBriefing, stage |-> 5, fix_calls |-> 1]

Briefing ==
    <<"{", "company_overview", ":", "Acme builds robots", ",",
      "talking_points", ":", "[", "ask about funding", "]", "}">>

BriefingBodies ==
    {Briefing,
     \* spread over several lines
     <<"{", NL, SP, "company_overview", ":", SP, "Acme builds robots", ",", NL, SP,
       "talking_points", ":", SP, "[", "ask about funding", "]", NL, "}">>,
     \* trailing commas, on one line and over several lines
     <<"{", "company_overview", ":", "Acme builds robots", ",", "talking_points", ":",
       "[", "ask about funding", ",", "]", ",", SP, "}">>,
     <<"{", NL, "company_overview", ":", "Acme builds robots", ",", NL, "}">>,
     <<"{", "company_overview", ":", "Acme builds robots", ",", NL, "}">>,
     \* an unescaped line break in a string value
     <<"{", "company_overview", ":", "two<nl>lines", "}">>,
     <<"{", "company_overview", ":", "two<nl>lines", ",", "}">>,
     \* the closing brace missing
     <<"{", "company_overview", ":", "Acme builds robots", ",", "talking_points", ":",
       "[", "ask about funding", "]">>,
     <<"{", "talking_points", ":", "[", "]", "}">>,
     <<"{", "}">>, <<"}", "{">>, <<"[", "ask about funding", "]">>, <<"7">>, <<"null">>,
     <<"Acme builds robots">>, <<"sorry">>, <<>>}

BriefingWrappings(body) ==
    {body,
     <<Fence, "json", NL>> \o body \o <<NL, Fence>>,
     <<"Here", SP>> \o body \o <<SP, "sorry">>,
     <<SP, NL>> \o body \o <<NL>>}

BriefingContents == UNION {BriefingWrappings(b) : b \in BriefingBodies}

FixReplies ==
    {Raises, Reply("rate limit", NoneContent), Reply("", NoneContent)}
    \cup {Reply("", Text(t)) :
            t \in {Briefing, <<Fence, "json", NL>> \o Briefing \o <<NL, Fence>>,
                   <<"Here", SP>> \o Briefing, <<"{", "company_overview", ":">>,
                   <<"}", "{">>, <<"sorry">>, <<"[", "7", "]">>}}

ParseInit ==
    /\ parse_content \in BriefingContents
    /\ parse_fix \in FixReplies
    /\ parse_pc = "ready"
    /\ parse_ret = [k |-> "none"]
    /\ TriIdle /\ GateIdle /\ AttrIdle /\ RouterIdle /\ RouteIdle /\ SesIdle /\ SortIdle /\ LinkupIdle /\ EmailIdle /\ RecallIdle /\ BriefingIdle /\ DraftIdle /\ CascadeIdle /\ RankIdle /\ SynthesisIdle

_parse_briefing_json ==
    /\ parse_pc = "ready"
    /\ parse_ret' = ParseBriefingJson(parse_content, parse_fix)
    /\ parse_pc' = "done"
    /\ UNCHANGED <<parse_content, parse_fix, notParse>>

ParseNext == _parse_briefing_json

SpecParse == ParseInit /\ [][ParseNext]_vars

\* C3: for every raw reply and every behaviour of the corrective call,
\* _parse_briefing_json returns a JSON object: one it parsed or the empty
\* typed default (it has no path that raises).
C3_ParseReturnsObject ==
    parse_pc = "done" => parse_ret.v.k = "obj"

\* What the cascade keeps: every value it returns from the second attempt on
\* is an object, and the last one is the empty typed default.
C3_LaterStagesReturnObjects ==
    parse_pc = "done" =>
        /\ parse_ret.stage > 1 => parse_ret.v.k = "obj"
        /\ parse_ret.stage = 5 => parse_ret.v = EmptyBriefing

\* --------------------------------------------------- source attribution

Min(a, b) == IF a < b THEN a ELSE b
Max(a, b) == IF a > b THEN a ELSE b

\* round(num / den) for num >= 0, den > 0: to the nearest integer, a tie to
\* the even one
Round(num, den) ==
    LET q == num \div den
        r == num % den
    IN IF 2 * r < den THEN q
       ELSE IF 2 * r > den THEN q + 1
       ELSE IF q % 2 = 0 THEN q ELSE q + 1

\* The base weights with a web share that is there without a source.
BaseWeightsWebShare(has_memory, has_linkup) ==
    IF has_memory /\ has_linkup THEN <<30, 40, 30>>
    ELSE IF has_memory /\ ~has_linkup THEN <<40, 10, 50>>
    ELSE IF ~has_memory /\ has_linkup THEN <<0, 55, 45>>
    ELSE <<0, 10, 90>>

\* The base weights <<memory, linkup, llm>> for the data that was available.
BaseWeights(has_memory, has_linkup) ==
    IF has_memory /\ has_linkup THEN <<30, 40, 30>>
    ELSE IF has_memory /\ ~has_linkup THEN <<50, 0, 50>>
    ELSE IF ~has_memory /\ has_linkup THEN <<0, 55, 45>>
    ELSE <<0, 0, 100>>

\* The attribution with the bonuses not taken from the LLM weight and the LLM
\* share rounded on its own.
AttributionRoundedApart(total_interactions, n_sources) ==
    LET has_memory == total_interactions > 0
        has_linkup == n_sources > 0
        base == BaseWeights(has_memory, has_linkup)
        memory_weight == base[1] + (IF has_memory THEN Min(total_interactions * 3, 10) ELSE 0)
        linkup_weight == base[2] + (IF has_linkup THEN Min(n_sources * 2, 10) ELSE 0)
        llm_weight == Max(base[3], 5)
        total == memory_weight + linkup_weight + llm_weight
    IN [memory_pct |-> Round(memory_weight * 100, total),
        linkup_pct |-> Round(linkup_weight * 100, total),
        llm_pct |-> Round(llm_weight * 100, total)]

\* _calculate_source_attribution(context, sources, briefing): the percentages
_calculate_source_attribution(total_interactions, n_sources) ==
    LET has_memory == total_interactions > 0
        has_linkup == n_sources > 0
        base == BaseWeights(has_memory, has_linkup)
        interaction_bonus == IF has_memory THEN Min(total_interactions * 3, 10) ELSE 0
        source_bonus == IF has_linkup THEN Min(n_sources * 2, 10) ELSE 0
        memory_weight == base[1] + interaction_bonus
        linkup_weight == base[2] + source_bonus
        llm_weight == Max(base[3] - interaction_bonus - source_bonus, 5)
        total == memory_weight + linkup_weight + llm_weight
        memory_pct == Round(memory_weight * 100, total)
        linkup_pct == Round(linkup_weight * 100, total)
    IN [memory_pct |-> memory_pct, linkup_pct |-> linkup_pct,
        llm_pct |-> 100 - memory_pct - linkup_pct]

\* the source_attribution of AgentOrchestrator._error_result
ErrorAttribution == [memory_pct |-> 0, linkup_pct |-> 0, llm_pct |-> 100]

MaxInteractions == 5
MaxSources == 6

AttrInit ==
    /\ attr_interactions \in 0..MaxInteractions
    /\ attr_sources \in 0..MaxSources
    /\ attr_pc = "ready"
    /\ attr_out = [memory_pct |-> 0, linkup_pct |-> 0, llm_pct |-> 0]
    /\ TriIdle /\ GateIdle /\ ParseIdle /\ RouterIdle /\ RouteIdle /\ SesIdle /\ SortIdle /\ LinkupIdle /\ EmailIdle /\ RecallIdle /\ BriefingIdle /\ DraftIdle /\ CascadeIdle /\ RankIdle /\ SynthesisIdle

CalculateSourceAttribution ==
    /\ attr_pc = "ready"
    /\ attr_out' = _calculate_source_attribution(attr_interactions, attr_sources)
    /\ attr_pc' = "done"
    /\ UNCHANGED <<attr_interactions, attr_sources, notAttr>>

\* The request fails before a briefing exists: the error result's attribution.
ErrorResultAttribution ==
    /\ attr_pc = "ready"
    /\ attr_out' = ErrorAttribution
    /\ attr_pc' = "error"
    /\ UNCHANGED <<attr_interactions, attr_sources, notAttr>>

AttrNext == CalculateSourceAttribution \/ ErrorResultAttribution

SpecAttr == AttrInit /\ [][AttrNext]_vars

\* C4: for every number of memory interactions and of web sources, the
\* attribution of _calculate_source_attribution, and the one of the error
\* result, has memory_pct + linkup_pct + llm_pct = 100 with each share in 0..100.
C4_AttributionSums ==
    attr_pc \in {"done", "error"} =>
        /\ attr_out.memory_pct + attr_out.linkup_pct + attr_out.llm_pct = 100
        /\ attr_out.memory_pct \in 0..100
        /\ attr_out.linkup_pct \in 0..100
        /\ attr_out.llm_pct \in 0..100

C4_Witness ==
    /\ attr_pc = "done"
    /\ attr_interactions >= 4 /\ attr_sources >= 5
    /\ attr_out = [memory_pct |-> 40, linkup_pct |-> 50, llm_pct |-> 10]

\* ---------------------------------------------------------- intent router

\* the keywords, stop words and user prompts
S_meeting == <<"m", "e", "e", "t", "i", "n", "g">>
S_briefing == <<"b", "r", "i", "e", "f", "i", "n", "g">>
S_prepare_me == <<"p", "r", "e", "p", "a", "r", "e", " ", "m", "e">>
S_talking_points == <<"t", "a", "l", "k", "i", "n", "g", " ", "p", "o", "i", "n", "t", "s">>
S_meet_with == <<"m", "e", "e", "t", " ", "w", "i", "t", "h">>
S_meeting_with == <<"m", "e", "e", "t", "i", "n", "g", " ", "w", "i", "t", "h">>
S_call_with == <<"c", "a", "l", "l", " ", "w", "i", "t", "h">>
S_presentation == <<"p", "r", "e", "s", "e", "n", "t", "a", "t", "i", "o", "n">>
S_email == <<"e", "m", "a", "i", "l">>
S_reply == <<"r", "e", "p", "l", "y">>
S_draft == <<"d", "r", "a", "f", "t">>
S_respond == <<"r", "e", "s", "p", "o", "n", "d">>
S_inbox == <<"i", "n", "b", "o", "x">>
S_mail == <<"m", "a", "i", "l">>
S_message_from == <<"m", "e", "s", "s", "a", "g", "e", " ", "f", "r", "o", "m">>
S_write_back == <<"w", "r", "i", "t", "e", " ", "b", "a", "c", "k">>
S_document == <<"d", "o", "c", "u", "m", "e", "n", "t">>
S_contract == <<"c", "o", "n", "t", "r", "a", "c", "t">>
S_pdf == <<"p", "d", "f">>
S_clause == <<"c", "l", "a", "u", "s", "e">>
S_analyze_file == <<"a", "n", "a", "l", "y", "z", "e", " ", "f", "i", "l", "e">>
S_upload == <<"u", "p", "l", "o", "a", "d">>
S_extract == <<"e", "x", "t", "r", "a", "c", "t">>
S_review_document == <<"r", "e", "v", "i", "e", "w", " ", "d", "o", "c", "u", "m", "e", "n", "t">>
S_tomorrow == <<"t", "o", "m", "o", "r", "r", "o", "w">>
S_today == <<"t", "o", "d", "a", "y">>
S_at == <<"a", "t">>
S_about == <<"a", "b", "o", "u", "t">>
S_regarding == <<"r", "e", "g", "a", "r", "d", "i", "n", "g">>
S_on == <<"o", "n">>
S_to == <<"t", "o">>
S_and == <<"a", "n", "d">>
S_use == <<"u", "s", "e">>
S_prepare == <<"p", "r", "e", "p", "a", "r", "e">>
S_talking == <<"t", "a", "l", "k", "i", "n", "g">>
S_points == <<"p", "o", "i", "n", "t", "s">>
S_next == <<"n", "e", "x", "t">>
S_steps == <<"s", "t", "e", "p", "s">>
S_context == <<"c", "o", "n", "t", "e", "x", "t">>
S_with == <<"w", "i", "t", "h">>
S_meet == <<"m", "e", "e", "t">>
S_for == <<"f", "o", "r">>
S_hello_there == <<"h", "e", "l", "l", "o", " ", "t", "h", "e", "r", "e">>
S_Prepare_me_for_meeting_with_Acme_Labs == <<"P", "r", "e", "p", "a", "r", "e", " ", "m", "e", " ", "f", "o", "r", " ", "m", "e", "e", "t", "i", "n", "g", " ", "w", "i", "t", "h", " ", "A", "c", "m", "e", " ", "L", "a", "b", "s">>
S_reply_to_this_email == <<"r", "e", "p", "l", "y", " ", "t", "o", " ", "t", "h", "i", "s", " ", "e", "m", "a", "i", "l">>
S_review_the_contract_pdf == <<"r", "e", "v", "i", "e", "w", " ", "t", "h", "e", " ", "c", "o", "n", "t", "r", "a", "c", "t", " ", "p", "d", "f">>
S_reply_after_the_call_with_IBM == <<"r", "e", "p", "l", "y", " ", "a", "f", "t", "e", "r", " ", "t", "h", "e", " ", "c", "a", "l", "l", " ", "w", "i", "t", "h", " ", "I", "B", "M">>
S_draft_a_contract == <<"d", "r", "a", "f", "t", " ", "a", " ", "c", "o", "n", "t", "r", "a", "c", "t">>
S_TechCorp_briefing_tomorrow == <<"T", "e", "c", "h", "C", "o", "r", "p", " ", "b", "r", "i", "e", "f", "i", "n", "g", " ", "t", "o", "m", "o", "r", "r", "o", "w">>
S_Upload_the_PDF == <<"U", "p", "l", "o", "a", "d", " ", "t", "h", "e", " ", "P", "D", "F">>
S_call_with_IBM_about_pricing == <<"c", "a", "l", "l", " ", "w", "i", "t", "h", " ", "I", "B", "M", " ", "a", "b", "o", "u", "t", " ", "p", "r", "i", "c", "i", "n", "g">>


\* The characters of the string lexemes the router looks into.
CharsOf(t) ==
    CASE t = "meeting" -> S_meeting
      [] t = "email" -> S_email
      [] t = "document" -> S_document
      [] OTHER -> <<>>

\* String lexemes made of blanks only, and str.strip() on a lexeme
BlankStrings == {" "}
StripLexeme(t) == IF t \in BlankStrings THEN "" ELSE t

\* result[key] = val
SetKey(v, key, val) ==
    JObj([x \in DOMAIN v.m \cup {key} |-> IF x = key THEN val ELSE v.m[x]])

meeting_keywords ==
    {S_meeting, S_briefing, S_prepare_me, S_talking_points, S_meet_with,
     S_meeting_with, S_call_with, S_presentation}
email_keywords ==
    {S_email, S_reply, S_draft, S_respond, S_inbox, S_mail, S_message_from,
     S_write_back}
document_keywords ==
    {S_document, S_contract, S_pdf, S_clause, S_analyze_file, S_upload, S_extract,
     S_review_document}

\* sum(1 for k in keywords if k in prompt_lower)
KeywordScore(keywords, prompt_lower) ==
    Cardinality({k \in keywords : Contains(prompt_lower, k)})

\* max(scores, key=scores.get) returns the first key, in the order meeting,
\* email, document, whose score is the highest.
_fallback_classify(prompt) ==
    LET prompt_lower == Lower(prompt)
        meeting == KeywordScore(meeting_keywords, prompt_lower)
        email == KeywordScore(email_keywords, prompt_lower)
        document == KeywordScore(document_keywords, prompt_lower)
        best == IF meeting >= email /\ meeting >= document THEN "meeting"
                ELSE IF email >= document THEN "email" ELSE "document"
        best_score == IF best = "meeting" THEN meeting
                      ELSE IF best = "email" THEN email ELSE document
    IN IF best_score > 0 THEN best ELSE "meeting"

stop_words ==
    {S_tomorrow, S_today, S_at, S_about, S_regarding, S_on, S_to, S_and, S_use,
     S_prepare, S_briefing, S_talking, S_points, S_next, S_steps, S_context,
     S_with, S_from}

\* the words that introduce a company name, in the order the patterns are tried
CompanyPatterns == <<(<<S_meeting, S_with>>), (<<S_meet, S_with>>), (<<S_with>>), (<<S_for>>)>>

RECURSIVE JoinWords(_)
JoinWords(words) ==
    IF words = <<>> THEN <<>>
    ELSE IF Len(words) = 1 THEN words[1]
    ELSE words[1] \o <<" ">> \o JoinWords(Tail(words))

\* the tokens before the first stop word
RECURSIVE BeforeStopWord(_)
BeforeStopWord(tokens) ==
    IF tokens = <<>> \/ Lower(Head(tokens)) \in stop_words THEN <<>>
    ELSE <<Head(tokens)>> \o BeforeStopWord(Tail(tokens))

\* The first position at which the words pat occur (letter case ignored) with
\* a word after them; 0 if there is none.
PatternAt(words, pat) ==
    LET hits == {i \in 1..(Len(words) - Len(pat)) :
                    \A j \in 1..Len(pat) : Lower(words[i + j - 1]) = pat[j]}
    IN IF hits = {} THEN 0 ELSE CHOOSE i \in hits : \A h \in hits : i <= h

\* match.group(1) reduced to the candidate name: at most 4 tokens
CandidateAfter(words, from) ==
    LET tokens == SubSeq(words, from, Len(words))
        filtered == BeforeStopWord(tokens)
        candidate == IF filtered # <<>> THEN filtered ELSE tokens
    IN JoinWords(SubSeq(candidate, 1, IF Len(candidate) < 4 THEN Len(candidate) ELSE 4))

LowerChars == {LowerChar(c) : c \in UpperChars}
\* [A-Z][a-z]+[A-Z][A-Za-z]* over a whole word
IsCamel(w) ==
    \E k \in 3..Len(w) :
        /\ w[1] \in UpperChars
        /\ \A j \in 2..(k - 1) : w[j] \in LowerChars
        /\ w[k] \in UpperChars
        /\ \A j \in (k + 1)..Len(w) : w[j] \in UpperChars \cup LowerChars
\* [A-Z]{2,} over a whole word
IsCaps(w) == Len(w) >= 2 /\ \A j \in 1..Len(w) : w[j] \in UpperChars

\* the first of the words at the positions hits, the empty string if there is none
FirstWord(words, hits) ==
    IF hits = {} THEN <<>>
    ELSE words[CHOOSE i \in hits : \A h \in hits : i <= h]

RECURSIVE ExtractFrom(_, _)
ExtractFrom(words, p) ==
    IF p > Len(CompanyPatterns)
    THEN LET camel == FirstWord(words, {i \in 1..Len(words) : IsCamel(words[i])}) IN
         IF camel # <<>> THEN camel
         ELSE FirstWord(words, {i \in 1..Len(words) : IsCaps(words[i])})
    ELSE LET i == PatternAt(words, CompanyPatterns[p]) IN
         IF i # 0 THEN CandidateAfter(words, i + Len(CompanyPatterns[p]))
         ELSE ExtractFrom(words, p + 1)

\* _extract_company_name(prompt), for a prompt of letters and single blanks
_extract_company_name(prompt) ==
    LET text == StripC(prompt) IN
    IF text = <<>> THEN <<>> ELSE ExtractFrom(SplitWords(text), 1)

\* _fallback_params(scenario, prompt)
_fallback_params(scenario, prompt) ==
    IF scenario = "meeting"
    THEN JObj("meeting" :> JObj("company_name" :> JName(_extract_company_name(prompt))
                                @@ "meeting_context" :> JName(prompt)))
    ELSE IF scenario = "email"
    THEN JObj("email" :> JObj("email_content" :> JName(prompt)
                              @@ "company_name" :> JStr("")))
    ELSE IF scenario = "document"
    THEN JObj("document" :> JObj("question" :> JName(prompt) @@ "file_hint" :> JStr("")))
    ELSE JObj(EmptyMap)

\* the except branch of classify: the keyword-based classification
FallbackClassification(user_prompt) ==
    LET scenario == _fallback_classify(user_prompt) IN
    JObj("scenarios" :> JArr(<<JStr(scenario)>>)
         @@ "primary_scenario" :> JStr(scenario)
         @@ "params" :> _fallback_params(scenario, user_prompt)
         @@ "summary" :> JName(user_prompt)
         @@ "router_error" :> JStr("str(e)"))

\* The contents the LLM may reply with: objects of the requested shape,
\* objects that miss or mistype a field, JSON that is no object, and text
\* that is not JSON.
RouterBodies == {
    \* valid single meeting
    <<"{", "scenarios", ":", "[", "meeting", "]", ",", "primary_scenario", ":",
      "meeting", ",", "params", ":", "{", "meeting", ":", "{", "company_name", ":",
      "Acme", "}", "}", "}">>,
    \* valid, two scenarios
    <<"{", "scenarios", ":", "[", "meeting", ",", "email", "]", ",",
      "primary_scenario", ":", "meeting", ",", "params", ":", "{", "meeting", ":", "{",
      "company_name", ":", "Acme", "}", ",", "email", ":", "{", "email_content", ":",
      "hi", "}", "}", "}">>,
    \* no primary_scenario, no per-scenario params
    <<"{", "scenarios", ":", "[", "email", ",", "document", "]", ",", "params", ":",
      "{", "}", "}">>,
    \* the same scenario twice
    <<"{", "scenarios", ":", "[", "email", ",", "email", "]", ",", "primary_scenario",
      ":", "email", ",", "params", ":", "{", "email", ":", "{", "email_content", ":",
      "hi", "}", "}", "}">>,
    \* meeting without a company name
    <<"{", "scenarios", ":", "[", "meeting", "]", ",", "params", ":", "{", "meeting",
      ":", "{", "}", "}", "}">>,
    \* meeting with a blank company name
    <<"{", "scenarios", ":", "[", "meeting", "]", ",", "params", ":", "{", "meeting",
      ":", "{", "company_name", ":", " ", "}", "}", "}">>,
    \* meeting whose params entry is null
    <<"{", "scenarios", ":", "[", "meeting", "]", ",", "primary_scenario", ":",
      "meeting", ",", "params", ":", "{", "meeting", ":", "null", "}", "}">>,
    \* empty scenarios list
    <<"{", "scenarios", ":", "[", "]", "}">>,
    \* empty scenarios list beside a primary scenario
    <<"{", "scenarios", ":", "[", "]", ",", "primary_scenario", ":", "email", ",",
      "params", ":", "{", "}", "}">>,
    \* no scenarios key
    <<"{", "params", ":", "{", "}", "}">>,
    \* null scenarios and null params
    <<"{", "scenarios", ":", "null", ",", "params", ":", "null", "}">>,
    \* null params
    <<"{", "scenarios", ":", "[", "email", "]", ",", "primary_scenario", ":", "email",
      ",", "params", ":", "null", "}">>,
    \* a null params entry
    <<"{", "scenarios", ":", "[", "email", "]", ",", "primary_scenario", ":", "email",
      ",", "params", ":", "{", "email", ":", "null", "}", "}">>,
    \* a tag outside the vocabulary, then a known one
    <<"{", "scenarios", ":", "[", "weather", ",", "email", "]", ",",
      "primary_scenario", ":", "email", ",", "params", ":", "{", "email", ":", "{",
      "email_content", ":", "hi", "}", "}", "}">>,
    \* a document with a file path
    <<"{", "scenarios", ":", "[", "document", ",", "email", "]", ",",
      "primary_scenario", ":", "document", ",", "params", ":", "{", "document", ":",
      "{", "question", ":", "q", ",", "file_path", ":", "missing.pdf", "}", "}", "}">>,
    \* scenarios of the wrong type
    <<"{", "scenarios", ":", "7", "}">>,
    \* scenarios as one string
    <<"{", "scenarios", ":", "email", ",", "params", ":", "{", "}", "}">>,
    \* a scenario that is a list
    <<"{", "scenarios", ":", "[", "[", "email", "]", "]", ",", "primary_scenario", ":",
      "email", ",", "params", ":", "{", "}", "}">>,
    \* valid JSON that is no object
    <<"[", "]">>,
    \* a trailing comma
    <<"{", "scenarios", ":", "[", "meeting", "]", ",", "}">>,
    \* prose
    <<"sorry">>,
    \* empty content
    <<>>
}

\* An exception raised inside the try block of classify.
RouterRaised == [ok |-> FALSE, v |-> JNull]
RouterOk(v) == [ok |-> TRUE, v |-> v]

\* lines 68-85: the reply's content, cleaned and parsed; content None has no
\* strip(), and a reply without content is read as the empty object
RouterParse(response) ==
    IF response.kind = "raise" \/ response.content.k = "none" THEN RouterRaised
    ELSE LET content == IF response.content.k = "absent" THEN <<"{", "}">>
                        ELSE response.content.t
             cleaned == Strip(content)
             unfenced == IF cleaned # <<>> /\ cleaned[1] = Fence
                         THEN DropFenceLines(cleaned) ELSE cleaned
         IN Loads(unfenced)

\* The validation left out: the reply's scenarios are kept as they are.
ValidateScenariosSkipped(result, user_prompt) == result

\* lines 88-90: a missing or empty scenarios value is replaced by the fallback's
ValidateScenarios(result, user_prompt) ==
    IF ~Has(result, "scenarios") \/ ~Truthy(result.m["scenarios"])
    THEN LET scenario == JStr(_fallback_classify(user_prompt)) IN
         SetKey(SetKey(result, "scenarios", JArr(<<scenario>>)),
                "primary_scenario", scenario)
    ELSE result

\* lines 92-93: result['scenarios'][0] exists for a non-empty list or string
ValidatePrimary(result) ==
    LET scenarios == Get(result, "scenarios", JNull) IN
    IF Has(result, "primary_scenario") THEN RouterOk(result)
    ELSE IF scenarios.k = "arr" /\ scenarios.a # <<>>
    THEN RouterOk(SetKey(result, "primary_scenario", scenarios.a[1]))
    ELSE IF scenarios.k = "str" /\ CharsOf(scenarios.s) # <<>>
    THEN RouterOk(SetKey(result, "primary_scenario", JStr(CharsOf(scenarios.s)[1])))
    ELSE RouterRaised

\* lines 95-96
ValidateParams(result) ==
    IF Has(result, "params") THEN result ELSE SetKey(result, "params", JObj(EmptyMap))

\* tag in result['scenarios'], for a list, a string or a dict
InScenarios(scenarios, tag) ==
    CASE scenarios.k = "arr" -> \E i \in 1..Len(scenarios.a) : scenarios.a[i] = JStr(tag)
      [] scenarios.k = "str" -> Contains(CharsOf(scenarios.s), CharsOf(tag))
      [] scenarios.k = "obj" -> tag \in DOMAIN scenarios.m
      [] OTHER -> FALSE

\* lines 99-107: a meeting without a company name gets the one found in the prompt
MeetingHeuristic(result, user_prompt) ==
    LET scenarios == Get(result, "scenarios", JArr(<<>>))
        params == result.m["params"]
    IN
    IF scenarios.k \in {"null", "bool", "num"} THEN RouterRaised
    ELSE IF ~InScenarios(scenarios, "meeting") THEN RouterOk(result)
    ELSE IF params.k # "obj" THEN RouterRaised
    ELSE LET meeting_params == Get(params, "meeting", JObj(EmptyMap)) IN
         IF meeting_params.k # "obj" THEN RouterRaised
         ELSE LET given == Get(meeting_params, "company_name", JNull) IN
              IF Truthy(given) /\ given.k # "str" THEN RouterRaised
              ELSE IF Truthy(given) /\ StripLexeme(given.s) # "" THEN RouterOk(result)
              ELSE LET extracted == _extract_company_name(user_prompt)
                       named == SetKey(meeting_params, "company_name", JName(extracted))
                       filled == IF Has(named, "meeting_context") THEN named
                                 ELSE SetKey(named, "meeting_context", JName(user_prompt))
                   IN IF extracted = <<>> THEN RouterOk(result)
                      ELSE RouterOk(SetKey(result, "params",
                                           SetKey(params, "meeting", filled)))

\* RouterAgent.classify(user_prompt), given the reply of self.groq.chat
Classify(user_prompt, response) ==
    LET parsed == RouterParse(response) IN
    IF ~parsed.ok \/ parsed.v.k # "obj" THEN FallbackClassification(user_prompt)
    ELSE LET primary == ValidatePrimary(ValidateScenarios(parsed.v, user_prompt)) IN
         IF ~primary.ok THEN FallbackClassification(user_prompt)
         ELSE LET checked == MeetingHeuristic(ValidateParams(primary.v), user_prompt) IN
              IF checked.ok THEN checked.v ELSE FallbackClassification(user_prompt)

RouterPrompts ==
    {S_empty, S_hello_there, S_Prepare_me_for_meeting_with_Acme_Labs,
     S_reply_to_this_email, S_review_the_contract_pdf, S_draft_a_contract,
     S_TechCorp_briefing_tomorrow, S_Upload_the_PDF, S_call_with_IBM_about_pricing,
     S_reply_after_the_call_with_IBM}

RouterContents ==
    RouterBodies
    \cup {<<Fence, "json", NL>> \o b \o <<NL, Fence>> : b \in RouterBodies}

RouterReplies ==
    {Raises, Reply("rate limit", NoneContent), Reply("", NoContent)}
    \cup {Reply("", Text(c)) : c \in RouterContents}

RouterInit ==
    /\ router_prompt \in RouterPrompts
    /\ router_resp \in RouterReplies
    /\ router_pc = "ready"
    /\ router_ret = [k |-> "null"]
    /\ TriIdle /\ GateIdle /\ ParseIdle /\ AttrIdle /\ RouteIdle /\ SesIdle /\ SortIdle /\ LinkupIdle /\ EmailIdle /\ RecallIdle /\ BriefingIdle /\ DraftIdle /\ CascadeIdle /\ RankIdle /\ SynthesisIdle

classify ==
    /\ router_pc = "ready"
    /\ router_ret' = Classify(router_prompt, router_resp)
    /\ router_pc' = "done"
    /\ UNCHANGED <<router_prompt, router_resp, notRouter>>

RouterNext == classify

SpecRouter == RouterInit /\ [][RouterNext]_vars

\* The reply is a JSON object whose scenarios value is non-empty but no list.
MistypedScenarios(response) ==
    LET parsed == RouterParse(response) IN
    /\ parsed.ok /\ parsed.v.k = "obj" /\ Has(parsed.v, "scenarios")
    /\ Truthy(parsed.v.m["scenarios"]) /\ parsed.v.m["scenarios"].k # "arr"

Scores(prompt) ==
    [scenario \in {"meeting", "email", "document"} |->
        KeywordScore(CASE scenario = "meeting" -> meeting_keywords
                       [] scenario = "email" -> email_keywords
                       [] OTHER -> document_keywords,
                     Lower(prompt))]
Highest(prompt) ==
    {a \in DOMAIN Scores(prompt) : \A b \in DOMAIN Scores(prompt) :
                                      Scores(prompt)[b] <= Scores(prompt)[a]}
Tied(prompt) == Cardinality(Highest(prompt)) >= 2

\* the scenario of a result of the keyword fallback
FallbackScenario(result) == result.m["scenarios"].a[1].s

\* C22: when two or more scenarios share the highest keyword score, the
\* fallback returns 'meeting', also when the tie is between 'email' and
\* 'document' and 'meeting' scores lower.
C22_TieGivesDefault ==
    (router_pc = "done" /\ Has(router_ret, "router_error") /\ Tied(router_prompt))
        => FallbackScenario(router_ret) = "meeting"

\* C22, what the fallback does at a tie: it returns the first of the tied
\* scenarios in the order meeting, email, document, and 'meeting' when no
\* keyword is found at all; a tie that 'meeting' takes part in gives 'meeting'.
C22_TieGivesFirstOfTied ==
    (router_pc = "done" /\ Has(router_ret, "router_error") /\ Tied(router_prompt))
        => LET tied == Highest(router_prompt) IN
           /\ "meeting" \in tied => FallbackScenario(router_ret) = "meeting"
           /\ "meeting" \notin tied => FallbackScenario(router_ret) = "email"

\* ------------------------------------------------------------ orchestrator

\* f"Error: {message}", for the messages of the model
ErrorText(message) ==
    CASE message = "No company name provided." -> "Error: No company name provided."
      [] message = "Unknown scenario" -> "Error: Unknown scenario"
      [] message = "no attribute 'get'" -> "Error: no attribute 'get'"
      [] OTHER -> "Error: agent raised"

\* AgentOrchestrator._error_result(message)
_error_result(message) ==
    JObj("reasoning_steps" :> JArr(<<JStr(message)>>)
         @@ "linkup_sources" :> JArr(<<>>)
         @@ "result" :> JStr(ErrorText(message))
         @@ "briefing_data" :> JObj(EmptyMap)
         @@ "confidence" :> JNum(0)
         @@ "execution_time" :> JNum(0)
         @@ "source_attribution" :>
                JObj([f \in DOMAIN ErrorAttribution |-> JNum(10 * ErrorAttribution[f])]))

\* what DocumentAgent.process returns when PyPDF2 and OCR both fail
ExtractionFailure ==
    JObj("reasoning_steps" :> JArr(<<JStr("Failed to extract text")>>)
         @@ "linkup_sources" :> JArr(<<>>)
         @@ "result" :> JStr("Error during PDF extraction (PyPDF2 and OCR failed).")
         @@ "extraction_logs" :> JArr(<<JStr("[ERROR]")>>))

\* what DocumentAgent.process returns with an answer
DocumentAnswer ==
    JObj("reasoning_steps" :> JArr(<<JStr("Answered")>>)
         @@ "linkup_sources" :> JArr(<<>>)
         @@ "result" :> JStr("answer")
         @@ "extraction_logs" :> JArr(<<JStr("[INFO]")>>))

\* what MeetingAgent.prepare_briefing returns
MeetingBriefing ==
    JObj("reasoning_steps" :> JArr(<<JStr("Briefing complete")>>)
         @@ "past_interactions" :> JObj(EmptyMap)
         @@ "linkup_sources" :> JArr(<<>>)
         @@ "result" :> JStr("briefing")
         @@ "briefing_data" :> JObj(EmptyMap)
         @@ "confidence" :> JNum(3)
         @@ "source_attribution" :> JObj(EmptyMap))

\* what the email agent's process returns
EmailReply == JObj("reasoning_steps" :> JArr(<<>>) @@ "result" :> JStr("reply"))

ProcessRaised(message) == [ok |-> FALSE, v |-> JNull, message |-> message]
ProcessOk(v) == [ok |-> TRUE, v |-> v, message |-> ""]

\* _process_email(input_data); outcome is what the agent does
_process_email(input_data, outcome) ==
    IF input_data.k # "obj" THEN ProcessRaised("no attribute 'get'")
    ELSE IF outcome = "raise" THEN ProcessRaised("agent raised")
    ELSE ProcessOk(IF Has(EmailReply, "draft_reply") THEN EmailReply
                   ELSE SetKey(EmailReply, "draft_reply",
                               Get(EmailReply, "result", JStr(""))))

\* _process_document(input_data)
_process_document(input_data, outcome) ==
    IF input_data.k # "obj" THEN ProcessRaised("no attribute 'get'")
    ELSE IF outcome = "raise" THEN ProcessRaised("agent raised")
    ELSE IF outcome = "extraction_failed" THEN ProcessOk(ExtractionFailure)
    ELSE ProcessOk(DocumentAnswer)

\* _process_meeting(input_data)
_process_meeting(input_data, outcome) ==
    IF input_data.k # "obj" THEN ProcessRaised("no attribute 'get'")
    ELSE IF ~Truthy(Get(input_data, "company_name", JStr("")))
    THEN ProcessOk(_error_result("No company name provided."))
    ELSE IF outcome = "raise" THEN ProcessRaised("agent raised")
    ELSE ProcessOk(MeetingBriefing)

\* The agent process() calls for the scenario ("none": no agent is called),
\* and what a called agent can do.
AgentCalled(scenario, input_data) ==
    IF input_data.k # "obj" THEN "none"
    ELSE IF scenario = JStr("email") THEN "email"
    ELSE IF scenario = JStr("document") THEN "document"
    ELSE IF scenario = JStr("meeting")
            /\ Truthy(Get(input_data, "company_name", JStr(""))) THEN "meeting"
    ELSE "none"

AgentOutcomes(scenario, input_data) ==
    LET agent == AgentCalled(scenario, input_data) IN
    IF agent = "none" THEN {"not called"}
    ELSE IF agent = "document" /\ Truthy(Get(input_data, "file_path", JStr("")))
    THEN {"ok", "raise", "extraction_failed"}
    ELSE {"ok", "raise"}

\* AgentOrchestrator.process(scenario, input_data)
process(scenario, input_data, outcome) ==
    LET r == IF scenario = JStr("email") THEN _process_email(input_data, outcome)
             ELSE IF scenario = JStr("document") THEN _process_document(input_data, outcome)
             ELSE IF scenario = JStr("meeting") THEN _process_meeting(input_data, outcome)
             ELSE ProcessRaised("Unknown scenario")
    IN SetKey(IF r.ok THEN r.v ELSE _error_result(r.message), "execution_time", JNum(0))

\* The scenarios of a classification in the order the for loop visits them:
\* the elements of a list, the characters of a string.
ScenarioList(classification) ==
    LET scenarios == Get(classification, "scenarios", JArr(<<>>)) IN
    CASE scenarios.k = "arr" -> scenarios.a
      [] scenarios.k = "str" ->
             [i \in 1..Len(CharsOf(scenarios.s)) |-> JStr(CharsOf(scenarios.s)[i])]
      [] OTHER -> <<>>

\* params.get(scenario, {}) raises when params is no dict or the scenario is
\* unhashable (a list or a dict)
ParamsLookupRaises(classification, scenario) ==
    \/ Get(classification, "params", JObj(EmptyMap)).k # "obj"
    \/ scenario.k \in {"arr", "obj"}

ScenarioParams(classification, scenario) ==
    LET params == Get(classification, "params", JObj(EmptyMap)) IN
    IF scenario.k = "str" /\ "s" \in DOMAIN scenario /\ scenario.s \in DOMAIN params.m
    THEN params.m[scenario.s] ELSE JObj(EmptyMap)

DirectScenarios == {JStr("meeting"), JStr("email"), JStr("document"), JStr("weather")}
DirectInputs ==
    {JObj(EmptyMap), JNull,
     JObj("company_name" :> JStr("Acme")),
     JObj("email_content" :> JStr("hi")),
     JObj("question" :> JStr("q") @@ "file_path" :> JStr("missing.pdf"))}

RouteInit ==
    /\ route_prompt \in RouterPrompts
    /\ route_resp \in RouterReplies
    /\ route_pc = "ready"
    /\ route_class = [k |-> "null"]
    /\ route_i = 0
    /\ route_results = <<>>
    /\ route_log = <<>>
    /\ route_ret = [k |-> "null"]
    /\ TriIdle /\ GateIdle /\ ParseIdle /\ AttrIdle /\ RouterIdle /\ SesIdle /\ SortIdle /\ LinkupIdle /\ EmailIdle /\ RecallIdle /\ BriefingIdle /\ DraftIdle /\ CascadeIdle /\ RankIdle /\ SynthesisIdle

\* route(user_prompt), up to the loop: the router classifies the prompt
RouteClassify ==
    /\ route_pc = "ready"
    /\ route_class' = Classify(route_prompt, route_resp)
    /\ route_i' = 1
    /\ route_pc' = "loop"
    /\ UNCHANGED <<route_prompt, route_resp, route_results, route_log, route_ret, notRoute>>

\* one iteration of the loop of route(): the scenario is processed
RouteDispatch ==
    /\ route_pc = "loop"
    /\ route_i <= Len(ScenarioList(route_class))
    /\ LET scenario == ScenarioList(route_class)[route_i] IN
       /\ ~ParamsLookupRaises(route_class, scenario)
       /\ LET scenario_params == ScenarioParams(route_class, scenario) IN
          \E outcome \in AgentOutcomes(scenario, scenario_params) :
              /\ route_results' =
                     [x \in DOMAIN route_results \cup {scenario} |->
                         IF x = scenario
                         THEN process(scenario, scenario_params, outcome)
                         ELSE route_results[x]]
              /\ route_log' = Append(route_log,
                                     [scenario |-> scenario,
                                      agent |-> AgentCalled(scenario, scenario_params),
                                      outcome |-> outcome])
    /\ route_i' = route_i + 1
    /\ UNCHANGED <<route_prompt, route_resp, route_pc, route_class, route_ret, notRoute>>

\* one iteration of the loop of route(): the parameter lookup, which is
\* outside the try block, raises and the exception leaves route()
RouteLookupRaises ==
    /\ route_pc = "loop"
    /\ route_i <= Len(ScenarioList(route_class))
    /\ ParamsLookupRaises(route_class, ScenarioList(route_class)[route_i])
    /\ route_pc' = "raised"
    /\ UNCHANGED <<route_prompt, route_resp, route_class, route_i, route_results,
                   route_log, route_ret, notRoute>>

\* route() after the loop: the envelope is returned
RouteReturn ==
    /\ route_pc = "loop"
    /\ route_i > Len(ScenarioList(route_class))
    /\ route_ret' = [k |-> "envelope", route |-> route_class, results |-> route_results,
                     primary_scenario |-> Get(route_class, "primary_scenario", JStr("meeting"))]
    /\ route_pc' = "returned"
    /\ UNCHANGED <<route_prompt, route_resp, route_class, route_i, route_results,
                   route_log, notRoute>>

\* process(scenario, input_data) called directly
ProcessDirect ==
    /\ route_pc = "ready"
    /\ \E scenario \in DirectScenarios : \E input_data \in DirectInputs :
       \E outcome \in AgentOutcomes(scenario, input_data) :
           /\ route_results' = (scenario :> process(scenario, input_data, outcome))
           /\ route_log' = <<[scenario |-> scenario,
                              agent |-> AgentCalled(scenario, input_data),
                              outcome |-> outcome]>>
    /\ route_pc' = "processed"
    /\ UNCHANGED <<route_prompt, route_resp, route_class, route_i, route_ret, notRoute>>

RouteNext ==
    \/ RouteClassify
    \/ RouteDispatch
    \/ RouteLookupRaises
    \/ RouteReturn
    \/ ProcessDirect

SpecRoute == RouteInit /\ [][RouteNext]_vars

\* the result texts that report a failure
FailureTexts ==
    {ErrorText(m) : m \in {"No company name provided.", "Unknown scenario",
                           "no attribute 'get'", "agent raised"}}
    \cup {"Error during PDF extraction (PyPDF2 and OCR failed)."}
Failed(result) == Has(result, "result") /\ result.m["result"].s \in FailureTexts
ErrorShaped(result) ==
    /\ Has(result, "reasoning_steps") /\ Has(result, "result")
    /\ Has(result, "confidence") /\ result.m["confidence"] = JNum(0)

\* C5: for every classification the router returns, route() does not raise:
\* it handles the scenarios one at a time in list order and returns an
\* envelope whose results hold an entry for every scenario of the list, a
\* scenario whose handling failed or raised included.
C5_RouteReturnsEveryScenario ==
    /\ route_pc # "raised"
    /\ route_pc = "returned" =>
           /\ [i \in 1..Len(route_log) |-> route_log[i].scenario]
                  = ScenarioList(route_class)
           /\ \A i \in 1..Len(ScenarioList(route_class)) :
                  ScenarioList(route_class)[i] \in DOMAIN route_ret.results

\* C5, for the classifications whose params value is a dict and whose
\* scenarios are strings: route() returns, with the scenarios handled in list
\* order and an entry for each, and a scenario that failed last has an
\* error-shaped or agent-reported failure entry.
C5_DictParamsRouteReturns ==
    LET list == ScenarioList(route_class) IN
    (/\ route_pc \in {"loop", "returned", "raised"}
     /\ Get(route_class, "params", JObj(EmptyMap)).k = "obj"
     /\ \A i \in 1..Len(list) : list[i].k = "str")
    => /\ route_pc # "raised"
       /\ \A i \in 1..Len(route_log) : route_log[i].scenario = list[i]
       /\ route_pc = "returned" =>
              /\ Len(route_log) = Len(list)
              /\ \A i \in 1..Len(list) : list[i] \in DOMAIN route_ret.results
              /\ \A i \in 1..Len(list) :
                     (/\ route_log[i].outcome = "raise"
                      /\ \A j \in (i + 1)..Len(list) : list[j] # list[i])
                     => ErrorShaped(route_ret.results[list[i]])

\* C9: every failed per-scenario result that route() or process() hands to
\* the caller has the keys reasoning_steps, result and confidence, and its
\* confidence is 0.0.
C9_FailuresAreErrorShaped ==
    \A s \in DOMAIN route_results :
        Failed(route_results[s]) => ErrorShaped(route_results[s])

\* C9, for the failures the orchestrator itself reports (an unknown scenario,
\* a missing company name, input that is no dict, an exception in an agent).
C9_OrchestratorFailuresAreErrorShaped ==
    \A s \in DOMAIN route_results :
        (Failed(route_results[s]) /\ route_results[s] # SetKey(ExtractionFailure, "execution_time", JNum(0)))
            => ErrorShaped(route_results[s])

\* ----------------------------------------------------------- session store

\* The session files are ses_files, keyed by session id; ses_used holds the
\* ids uuid4 has issued. Each session has one writer at a time: ses_pending is
\* the writer's position inside append (the session it loaded, not yet saved).
SessionIds == {"s1", "s2"}
SessionQueries == {"q1", "q2"}
\* titles as words; the empty title asks for the default one
SessionTitles == {<<>>, <<"Plan">>, <<"Session", "notes">>}
MaxAppends == 2

\* f"Session {session_id[:6]}"
DefaultTitle == <<"Session", "<session_id[:6]>">>
\* title.startswith("Session ")
StartsWithSession(title) == Len(title) >= 2 /\ title[1] = "Session"

\* the session create_session saves
NewSession(title) ==
    [title |-> IF title # <<>> THEN title ELSE DefaultTitle, interactions |-> <<>>]

\* The session with every earlier interaction dropped at an append.
AppendOverwrites(session, user_query) ==
    [title |-> session.title,
     interactions |-> <<[id |-> Len(session.interactions) + 1,
                         user_query |-> user_query]>>]

\* A numbering of the interactions that starts at 0.
InteractionNumFromZero(session) == Len(session.interactions)

\* line 68 of append: interaction_num
InteractionNum(session) == Len(session.interactions) + 1

\* lines 68-83 of append: the loaded session with the interaction added
AppendInteraction(session, user_query) ==
    LET interaction_num == InteractionNum(session)
        interaction == [id |-> interaction_num, user_query |-> user_query]
    IN [title |-> IF interaction_num = 1 /\ StartsWithSession(session.title)
                  THEN <<user_query>> ELSE session.title,
        interactions |-> Append(session.interactions, interaction)]

\* One file shared by every session: the data is written over all of them.
SaveSharedFile(files, session_id, data) ==
    [x \in DOMAIN files \cup {session_id} |-> data]

\* _save(session_id, data): the session's own file is written, whole
_save(files, session_id, data) ==
    [x \in DOMAIN files \cup {session_id} |->
        IF x = session_id THEN data ELSE files[x]]

WriterIdle == [pc |-> "idle"]

SesInit ==
    /\ ses_files = <<>>
    /\ ses_used = {}
    /\ ses_pending = [id \in SessionIds |-> WriterIdle]
    /\ ses_ret = [op |-> "none"]
    /\ TriIdle /\ GateIdle /\ ParseIdle /\ AttrIdle /\ RouterIdle /\ RouteIdle /\ SortIdle /\ LinkupIdle /\ EmailIdle /\ RecallIdle /\ BriefingIdle /\ DraftIdle /\ CascadeIdle /\ RankIdle /\ SynthesisIdle

\* create_session(title): a fresh id, and the new session saved under it
create_session ==
    \E id \in SessionIds \ ses_used : \E title \in SessionTitles :
        /\ ses_files' = _save(ses_files, id, NewSession(title))
        /\ ses_used' = ses_used \cup {id}
        /\ ses_ret' = [op |-> "create_session", session_id |-> id]
        /\ UNCHANGED <<ses_pending, notSes>>

\* append(session_id, ...), line 64: the session is loaded
AppendLoad ==
    \E id \in DOMAIN ses_files : \E user_query \in SessionQueries :
        /\ ses_pending[id] = WriterIdle
        /\ Len(ses_files[id].interactions) < MaxAppends
        /\ ses_pending' = [ses_pending EXCEPT ![id] =
                              [pc |-> "loaded", session |-> ses_files[id],
                               user_query |-> user_query]]
        /\ UNCHANGED <<ses_files, ses_used, ses_ret, notSes>>

\* append(session_id, ...), lines 64-66: there is no such session
AppendMissing ==
    \E id \in SessionIds \ DOMAIN ses_files :
        /\ ses_pending[id] = WriterIdle
        /\ ses_ret' = [op |-> "append", session_id |-> id, raised |-> "ValueError"]
        /\ ses_ret' # ses_ret
        /\ UNCHANGED <<ses_files, ses_used, ses_pending, notSes>>

\* append(session_id, ...), lines 68-86: the interaction is added and the
\* session saved; the call returns the interaction's number
AppendSave ==
    \E id \in SessionIds :
        /\ ses_pending[id].pc = "loaded"
        /\ LET session == AppendInteraction(ses_pending[id].session,
                                            ses_pending[id].user_query)
           IN /\ ses_files' = _save(ses_files, id, session)
              /\ ses_ret' = [op |-> "append", session_id |-> id,
                             interaction_num |-> InteractionNum(ses_pending[id].session)]
        /\ ses_pending' = [ses_pending EXCEPT ![id] = WriterIdle]
        /\ UNCHANGED <<ses_used, notSes>>

\* delete_session(session_id)
delete_session ==
    \E id \in SessionIds :
        /\ ses_pending[id] = WriterIdle
        /\ ses_files' = [x \in DOMAIN ses_files \ {id} |-> ses_files[x]]
        /\ ses_ret' = [op |-> "delete_session", session_id |-> id,
                       deleted |-> id \in DOMAIN ses_files]
        /\ ses_ret' # ses_ret \/ ses_files' # ses_files
        /\ UNCHANGED <<ses_used, ses_pending, notSes>>

SesNext ==
    \/ create_session
    \/ AppendLoad
    \/ AppendMissing
    \/ AppendSave
    \/ delete_session

SpecSession == SesInit /\ [][SesNext]_vars

IsPrefix(a, b) == Len(a) <= Len(b) /\ SubSeq(b, 1, Len(a)) = a

NoDate == [k |-> "none"]
EpochNumber(n) == [k |-> "num", n |-> n]
IsoString(t, tz) == [k |-> "str", form |-> "iso", t |-> t, tz |-> tz]
DigitString(n) == [k |-> "str", form |-> "digits", n |-> n]
TextString == [k |-> "str", form |-> "text"]
EmptyString == [k |-> "str", form |-> "empty"]

\* 10**11 seconds, in units of 10^8 seconds
MsThreshold == 1000
\* datetime.min, the year 1, in units of 10^8 seconds since the epoch
DatetimeMin == [aware |-> FALSE, t |-> -621]

\* bool(raw)
DateTruthy(raw) ==
    CASE raw.k = "none" -> FALSE
      [] raw.k = "num" -> raw.n # 0
      [] OTHER -> raw.form # "empty"

RECURSIVE DecimalDigits(_)
DecimalDigits(n) == IF n < 10 THEN 1 ELSE 1 + DecimalDigits(n \div 10)

\* len(raw) of a string of digits: the digits of raw.n and of its unit, 10^8
DigitStringLen(raw) == DecimalDigits(raw.n) + 8

\* datetime.fromtimestamp: a naive datetime
fromtimestamp(t) == [aware |-> FALSE, t |-> t]

\* datetime.fromisoformat(raw.replace('Z', '+00:00')): aware when the string
\* carries an offset, naive when it does not
fromisoformat(raw) == [aware |-> raw.tz # "", t |-> raw.t]

_parse_datetime(record) ==
    LET raw == IF DateTruthy(record.date) THEN record.date ELSE record.timestamp
    IN IF ~DateTruthy(raw) THEN NoDate
       ELSE IF raw.k = "num"
            THEN fromtimestamp(IF raw.n > MsThreshold THEN raw.n \div 1000 ELSE raw.n)
       ELSE IF raw.form = "digits"
            THEN fromtimestamp(IF DigitStringLen(raw) >= 12
                               THEN raw.n \div 1000 ELSE raw.n)
       ELSE IF raw.form = "iso" THEN fromisoformat(raw)
       ELSE NoDate

\* key=lambda r: self._parse_datetime(r) or datetime.min
SortKey(record) ==
    LET parsed == _parse_datetime(record)
    IN IF parsed = NoDate THEN DatetimeMin ELSE parsed

\* a < b on datetimes raises TypeError when one is aware and the other naive;
\* sorted() cannot order a list without comparing, somewhere, a key of one
\* kind with a key of the other
SortRaisesTypeError(records) ==
    \E i, j \in DOMAIN records : SortKey(records[i]).aware # SortKey(records[j]).aware

\* the place of records[i] in sorted(records, key=..., reverse=True): after
\* every record with a later key and, sorted() being stable, after every
\* earlier record with the same key
SortedPlace(records, i) ==
    1 + Cardinality({j \in DOMAIN records :
                        \/ SortKey(records[j]).t > SortKey(records[i]).t
                        \/ /\ SortKey(records[j]).t = SortKey(records[i]).t
                           /\ j < i})

_sort_by_date(records) ==
    IF SortRaisesTypeError(records)
    THEN [raised |-> "TypeError", value |-> <<>>]
    ELSE [raised |-> "none",
          value |-> [p \in DOMAIN records |->
                        records[CHOOSE i \in DOMAIN records :
                                    SortedPlace(records, i) = p]]]

MaxRecords == 3

\* what a record's date holds
DateValues ==
    {NoDate, EmptyString, TextString,
     IsoString(16, "Z"), IsoString(17, "Z"), IsoString(16, ""), IsoString(17, ""),
     EpochNumber(0), EpochNumber(17000), DigitString(16)}
\* the records that carry a timestamp too
TimestampedRecords ==
    {[date |-> NoDate, timestamp |-> EpochNumber(17)],
     [date |-> IsoString(16, "Z"), timestamp |-> EpochNumber(17)]}
RecordFields ==
    {[date |-> d, timestamp |-> NoDate] : d \in DateValues} \cup TimestampedRecords
RecordLists ==
    UNION {[1..n -> RecordFields] : n \in 0..MaxRecords}
WithIds(fields) ==
    [i \in DOMAIN fields |->
        [id |-> i, date |-> fields[i].date, timestamp |-> fields[i].timestamp]]

SortInit ==
    /\ sort_records \in {WithIds(fields) : fields \in RecordLists}
    /\ sort_pc = "call"
    /\ sort_out = [raised |-> "none", value |-> <<>>]
    /\ TriIdle /\ GateIdle /\ ParseIdle /\ AttrIdle /\ RouterIdle /\ RouteIdle /\ SesIdle /\ LinkupIdle /\ EmailIdle /\ RecallIdle /\ BriefingIdle /\ DraftIdle /\ CascadeIdle /\ RankIdle /\ SynthesisIdle

\* _sort_by_date(records) returns the sorted list
SortByDate ==
    /\ sort_pc = "call"
    /\ _sort_by_date(sort_records).raised = "none"
    /\ sort_out' = _sort_by_date(sort_records)
    /\ sort_pc' = "done"
    /\ UNCHANGED <<sort_records, notSort>>

\* _sort_by_date(records) raises out of sorted()
SortByDateRaises ==
    /\ sort_pc = "call"
    /\ _sort_by_date(sort_records).raised # "none"
    /\ sort_out' = _sort_by_date(sort_records)
    /\ sort_pc' = "done"
    /\ UNCHANGED <<sort_records, notSort>>

SortNext ==
    \/ SortByDate
    \/ SortByDateRaises

SpecSort == SortInit /\ [][SortNext]_vars

Dated(record) == _parse_datetime(record) # NoDate
NewestFirst(out) ==
    \A i, j \in DOMAIN out :
        (i < j /\ Dated(out[i]) /\ Dated(out[j])) =>
            _parse_datetime(out[i]).t >= _parse_datetime(out[j]).t
UndatedLast(out) ==
    \A i, j \in DOMAIN out : (~Dated(out[i]) /\ Dated(out[j])) => j < i
SameRecords(out, records) ==
    /\ Len(out) = Len(records)
    /\ \A i \in DOMAIN records : \E p \in DOMAIN out : out[p] = records[i]

\* C10: for every list of records whose dates are any mix of timezone-aware
\* ISO strings, naive ISO strings, epoch numbers, unparseable strings and
\* missing values, _sort_by_date never raises, returns the records
\* newest-first, and places every record with an unparseable or missing date
\* after all dated records.
C10_SortNeverRaises ==
    sort_pc = "done" =>
        /\ sort_out.raised = "none"
        /\ SameRecords(sort_out.value, sort_records)
        /\ NewestFirst(sort_out.value)
        /\ UndatedLast(sort_out.value)

\* What does hold of _sort_by_date: a list whose keys are all naive (no
\* record carries an offset) or all aware (every record is dated and carries
\* one) comes back newest-first with the undated records last, and any other
\* list of two or more records raises TypeError.
C10_SortsWhenKeysAreOfOneKind ==
    sort_pc = "done" =>
        IF \E i, j \in DOMAIN sort_records :
               SortKey(sort_records[i]).aware # SortKey(sort_records[j]).aware
        THEN sort_out.raised = "TypeError"
        ELSE /\ sort_out.raised = "none"
             /\ SameRecords(sort_out.value, sort_records)
             /\ NewestFirst(sort_out.value)
             /\ UndatedLast(sort_out.value)

\* ----------------------------------------------------------- web search
\* LinkupWrapper.search(query, max_results). The provider's answer is what
\* self.client.search does: it raises, or returns an object. An attribute of
\* a result object is None (JNull), a string (JStr) or, for the text of a
\* snippet, a string known by its length (Chars).

Chars(n) == [k |-> "str", len |-> n]

\* the characters a snippet is cut to
SnippetLength == 200

\* getattr(obj, attr, default)
getattr(obj, attr, default) == IF attr \in DOMAIN obj THEN obj[attr] ELSE default

\* what self.client.search does
ProviderRaises(message) == [kind |-> "raise", message |-> message]
ProviderReturns(results) == [kind |-> "return", results |-> results]

\* the loop body of search, lines 45-52; TypeError when the snippet is None
SourceItem(result, i) ==
    LET name == getattr(result, "name", JStr(""))
        snippet == getattr(result, "snippet", getattr(result, "content", Chars(0)))
    IN IF snippet.k # "str"
       THEN [raised |-> TRUE, item |-> JNull]
       ELSE [raised |-> FALSE,
             item |-> [title |-> IF Truthy(name) THEN name
                                 ELSE getattr(result, "title", JStr("")),
                       url |-> getattr(result, "url", JStr("")),
                       snippet |-> Chars(IF snippet.len < SnippetLength
                                         THEN snippet.len ELSE SnippetLength),
                       relevance |-> i]]

\* str(e) of the TypeError that None[:200] raises
NotSubscriptable == "'NoneType' object is not subscriptable"

\* search(query, max_results): the dict returned
LinkupSearch(query, max_results, provider) ==
    IF provider.kind = "raise"
    THEN [query |-> query, sources |-> <<>>, error |-> provider.message]
    ELSE LET results == provider.results
             listed == IF "results" \in DOMAIN results /\ results.results.k = "arr"
                       THEN results.results.a ELSE <<>>
             taken == SubSeq(listed, 1, Min(Len(listed), max_results))
             items == [i \in DOMAIN taken |-> SourceItem(taken[i], i)]
         IN IF \E i \in DOMAIN items : items[i].raised
            THEN [query |-> query, sources |-> <<>>, error |-> NotSubscriptable]
            ELSE [query |-> query,
                  sources |-> [i \in DOMAIN items |-> items[i].item],
                  total_found |-> Len(items)]

MaxResults == 2

\* the result objects a provider returns
ResultObjects ==
    {[name |-> JStr("Acme raises Series B"), url |-> JStr("https://news.example/acme"),
      snippet |-> Chars(80)],
     [name |-> JStr(""), title |-> JStr("Acme blog"), content |-> Chars(350)],
     [name |-> JNull, url |-> JNull, snippet |-> Chars(0), content |-> Chars(40)],
     [title |-> JStr("Acme"), snippet |-> JNull],
     [url |-> JStr("https://acme.example")]}

ProviderAnswers ==
    {ProviderRaises(m) : m \in {"", "401 Unauthorized"}}
    \cup {ProviderReturns([answer |-> JStr("no list")]),
          ProviderReturns([results |-> JNull])}
    \cup {ProviderReturns([results |-> JArr(r)]) : r \in SeqsUpTo(ResultObjects, MaxResults)}

LinkupQueries == {"\"Acme\" company", "Acme recent news"}
MaxResultsArgs == {1, 5}

LinkupInit ==
    /\ lk_query \in LinkupQueries
    /\ lk_max_results \in MaxResultsArgs
    /\ lk_provider \in ProviderAnswers
    /\ lk_pc = "call"
    /\ lk_ret = [k |-> "none"]
    /\ TriIdle /\ GateIdle /\ ParseIdle /\ AttrIdle /\ RouterIdle /\ RouteIdle /\ SesIdle /\ SortIdle /\ EmailIdle /\ RecallIdle /\ BriefingIdle /\ DraftIdle /\ CascadeIdle /\ RankIdle /\ SynthesisIdle

\* search(query, max_results): the try block returns
search ==
    /\ lk_pc = "call"
    /\ "error" \notin DOMAIN LinkupSearch(lk_query, lk_max_results, lk_provider)
    /\ lk_ret' = LinkupSearch(lk_query, lk_max_results, lk_provider)
    /\ lk_pc' = "done"
    /\ UNCHANGED <<lk_query, lk_max_results, lk_provider, notLinkup>>

\* search(query, max_results): the except block returns
SearchExcept ==
    /\ lk_pc = "call"
    /\ "error" \in DOMAIN LinkupSearch(lk_query, lk_max_results, lk_provider)
    /\ lk_ret' = LinkupSearch(lk_query, lk_max_results, lk_provider)
    /\ lk_pc' = "done"
    /\ UNCHANGED <<lk_query, lk_max_results, lk_provider, notLinkup>>

LinkupNext ==
    \/ search
    \/ SearchExcept

SpecLinkup == LinkupInit /\ [][LinkupNext]_vars

\* C12: LinkupWrapper.search never raises: for any provider exception it
\* returns sources == [] together with a non-empty error string, and a
\* successful provider call that yields zero results returns sources == []
\* with no error field.
C12_SearchReportsEveryError ==
    lk_pc = "done" =>
        /\ lk_provider.kind = "raise" =>
               /\ lk_ret.sources = <<>>
               /\ "error" \in DOMAIN lk_ret
               /\ lk_ret.error # ""
        /\ (lk_provider.kind = "return"
            /\ lk_provider.results \in {[results |-> JArr(<<>>)], [results |-> JNull],
                                        [answer |-> JStr("no list")]}) =>
               /\ lk_ret.sources = <<>>
               /\ "error" \notin DOMAIN lk_ret

\* What search keeps of C12: a provider exception yields sources == [] and
\* an error field holding str(e), which is empty when the exception carries
\* no message; zero results yield sources == [] and no error field.
C12_SearchReportsErrorField ==
    lk_pc = "done" =>
        /\ lk_provider.kind = "raise" =>
               /\ lk_ret.sources = <<>>
               /\ "error" \in DOMAIN lk_ret
               /\ lk_ret.error = lk_provider.message
        /\ (lk_provider.kind = "return"
            /\ lk_provider.results \in {[results |-> JArr(<<>>)], [results |-> JNull],
                                        [answer |-> JStr("no list")]}) =>
               /\ lk_ret.sources = <<>>
               /\ "error" \notin DOMAIN lk_ret

\* ------------------------------------------------------- email pipeline
\* EmailIntelligenceAgent.analyze_email and research_all_entities. The
\* entities are those extract_entities returned; every call of
\* assess_knowledge and of self.linkup.search draws its answer from the
\* answers these can give. em_events lists the calls to the gate and to the
\* search provider and the sleeps, in the order they are made.

\* self.recipient_company
EmailRecipient == S_DataFlow_AI

\* validation_entities[:2]
ValidationCap == 2

NoDecisions ==
    [skipped_self_reference |-> <<>>, skipped_generic |-> <<>>, used_knowledge |-> <<>>,
     searched_unknown |-> <<>>, searched_validation |-> <<>>]

\* d[key] = value on a dict
Put(d, key, value) ==
    [x \in DOMAIN d \cup {key} |-> IF x = key THEN value ELSE d[x]]

Names(entities) == [i \in DOMAIN entities |-> EGet(entities[i], "name")]

\* what self.linkup.search gives: a dict as LinkupWrapper.search builds it, or
\* an exception out of a search object that raises
SearchReturns(result) == [kind |-> "dict", result |-> result]
SearchRaised(message) == [kind |-> "raise", message |-> message]
SearchOutcomes ==
    {SearchReturns(LinkupSearch("q", 5, p)) :
        p \in {ProviderRaises("401 Unauthorized"),
               ProviderReturns([results |-> JArr(<<>>)]),
               ProviderReturns([results |-> JArr(<<[name |-> JStr("Acme raises Series B"),
                                                    snippet |-> Chars(80)]>>)])}}
    \cup {SearchRaised("connection reset")}

\* the text of a search query that carries a double quote
QuotedQueryTexts == {"\"Acme\" funding round"}
HasQuote(search_query) ==
    IF "s" \in DOMAIN search_query THEN search_query.s \in QuotedQueryTexts
    ELSE \E i \in DOMAIN search_query.chars : search_query.chars[i] = "\""

\* f"{entity_name} recent news"
RecentNewsQuery(entity_name) ==
    JName(entity_name \o <<" ", "r", "e", "c", "e", "n", "t", " ", "n", "e", "w", "s">>)

\* lines 898-903: the query the search is made with
EnhancedQuery(search_query, entity_name, entity_type) ==
    IF search_query.k = "str" /\ HasQuote(search_query) THEN search_query
    ELSE [k |-> "str", quoted |-> entity_name,
          suffix |-> IF entity_type = S_company THEN " company"
                     ELSE IF entity_type = S_person THEN " linkedin" ELSE ""]

\* what assess_knowledge returns: the verdicts of an LLM reply that parsed,
\* and the default verdict of one that did not
EmailAssessments(entity_name) ==
    {JObj([needs_search |-> JBool(TRUE), reasoning |-> JStr("unfamiliar"),
           search_query |-> JStr("Acme funding")]),
     JObj([needs_search |-> JBool(TRUE), search_query |-> JStr("\"Acme\" funding round")]),
     JObj([needs_search |-> JBool(FALSE), reasoning |-> JStr("well known"),
           confidence |-> JNum(9), known_info |-> JStr("a bank")]),
     JObj([needs_search |-> JNull, reasoning |-> JStr("well known")]),
     JObj(EmptyMap),
     JObj([needs_search |-> JBool(TRUE), search_query |-> JNull]),
     JArr(<<>>),
     DefaultVerdict("Assessment failed, defaulting to search", entity_name)}

Event(e, name) == [e |-> e, name |-> name]
\* what the verdict says of needs_search
Said(assessment) ==
    IF assessment.k # "obj" THEN "no dict"
    ELSE IF ~Has(assessment, "needs_search") THEN "missing"
    ELSE LET needs_search == assessment.m.needs_search IN
         IF needs_search.k = "null" THEN "null"
         ELSE IF needs_search.k = "bool"
         THEN IF needs_search.b THEN "true" ELSE "false"
         ELSE "other"
\* a call of assess_knowledge for the entity and what its verdict said
GateEvent(name, assessment) == [e |-> "gate", name |-> name, said |-> Said(assessment)]
\* a call of self.linkup.search and how it ended: "ok", "error" (a dict with
\* an error string) or "raise"
SearchEvent(name, outcome) ==
    [e |-> "search", name |-> name,
     ended |-> IF outcome.kind = "raise" THEN "raise"
               ELSE IF "error" \in DOMAIN outcome.result THEN "error" ELSE "ok"]
Sleep == [e |-> "sleep"]

\* lines 858-875: the entity is answered from existing knowledge
UseKnowledge(run, entity, assessment) ==
    LET entity_name == EGet(entity, "name") IN
    [run EXCEPT
        !.entity_decisions.used_knowledge = Append(@, entity_name),
        !.information_sources =
            Put(@, entity_name,
                [source_type |-> "local_knowledge",
                 confidence |-> Get(assessment, "confidence", JNum(8)),
                 known_info |-> Get(assessment, "known_info", JStr("")),
                 assessment_reasoning |-> Get(assessment, "reasoning", JStr(""))]),
        !.research_data =
            Put(@, entity_name,
                [entity |-> entity_name, type |-> EGet(entity, "type"),
                 context |-> EGet(entity, "context"), used_existing_knowledge |-> TRUE,
                 known_info |-> Get(assessment, "known_info", JStr("")),
                 reasoning |-> Get(assessment, "reasoning", JStr("")),
                 sources |-> <<>>])]

\* lines 879-890: the search is counted as critical or as validation
IsCritical(run, entity_name) ==
    \E i \in DOMAIN run.critical_entities :
        /\ "name" \in DOMAIN run.critical_entities[i]
        /\ run.critical_entities[i].name = entity_name

CountSearch(run, entity_name) ==
    IF IsCritical(run, entity_name)
    THEN [run EXCEPT !.entity_decisions.searched_unknown = Append(@, entity_name)]
    ELSE [run EXCEPT !.entity_decisions.searched_validation = Append(@, entity_name)]

\* lines 909-943: the search and the entries it leaves
RecordSearch(run, entity, assessment, search_query, outcome) ==
    LET entity_name == EGet(entity, "name") IN
    IF outcome.kind = "raise"
    THEN [run EXCEPT !.research_data =
              Put(@, entity_name,
                  [entity |-> entity_name, type |-> EGet(entity, "type"),
                   sources |-> <<>>, error |-> outcome.message])]
    ELSE LET sources == getattr(outcome.result, "sources", <<>>) IN
         [run EXCEPT
              !.api_calls.linkup_searches = @ + 1,
              !.information_sources =
                  Put(@, entity_name,
                      [source_type |-> "linkup", confidence |-> "0.75",
                       sources_count |-> Len(sources),
                       query_used |-> search_query,
                       assessment_reasoning |-> Get(assessment, "reasoning", JStr("")),
                       priority |-> IF IsCritical(run, entity_name)
                                    THEN "critical" ELSE "validation"]),
              !.research_data =
                  Put(@, entity_name,
                      [entity |-> entity_name, type |-> EGet(entity, "type"),
                       context |-> EGet(entity, "context"),
                       sources |-> sources,
                       query_used |-> search_query,
                       used_existing_knowledge |-> FALSE])]

\* One iteration of the loop over entities_to_research, lines 833-945: the
\* locals it leaves, the calls it makes in order, and the exception that
\* leaves analyze_email, if any.
ResearchIteration(run, entity, assessment, outcome) ==
    LET entity_name == EGet(entity, "name")
        entity_type == EGet(entity, "type")
        gated == [run EXCEPT !.api_calls.groq_knowledge_assessment = @ + 1]
        gate == <<GateEvent(entity_name, assessment)>>
    IN IF _is_self_reference(entity_name, EmailRecipient)
       THEN [run |-> [run EXCEPT !.entity_decisions.skipped_self_reference =
                                     Append(@, entity_name)],
             events |-> <<>>, raised |-> "none"]
       ELSE IF _is_generic_term(entity_name, entity_type)
       THEN [run |-> [run EXCEPT !.entity_decisions.skipped_generic =
                                     Append(@, entity_name)],
             events |-> <<>>, raised |-> "none"]
       ELSE IF assessment.k # "obj"
       THEN [run |-> gated, events |-> gate, raised |-> "AttributeError"]
       ELSE IF ~Truthy(Get(assessment, "needs_search", JBool(TRUE)))
       THEN [run |-> UseKnowledge(gated, entity, assessment),
             events |-> gate \o <<Sleep>>, raised |-> "none"]
       ELSE IF Get(assessment, "reasoning", JStr("")).k # "str"
       THEN [run |-> gated, events |-> gate, raised |-> "AttributeError"]
       ELSE LET counted == CountSearch(gated, entity_name)
                search_query == Get(assessment, "search_query",
                                    RecentNewsQuery(entity_name))
            IN IF search_query.k \in {"null", "bool", "num"}
               THEN [run |-> counted, events |-> gate, raised |-> "TypeError"]
               ELSE [run |-> RecordSearch(counted, entity, assessment,
                                          EnhancedQuery(search_query, entity_name,
                                                        entity_type),
                                          outcome),
                     events |-> gate \o <<SearchEvent(entity_name, outcome), Sleep>>,
                     raised |-> "none"]

\* research_entity(entity, email_content), lines 277-349: the stats it
\* leaves, the entry it returns, the calls it makes and the exception that
\* leaves it, if any
ResearchEntity(stats, entity, assessment, outcome) ==
    LET entity_name == EGet(entity, "name")
        entity_type == IF "type" \in DOMAIN entity THEN entity.type
                       ELSE <<"u", "n", "k", "n", "o", "w", "n">>
        gate == <<GateEvent(entity_name, assessment)>>
        failed(message) == [entity |-> entity_name, sources |-> <<>>, error |-> message]
    IN IF assessment.k # "obj"
       THEN [stats |-> stats, entry |-> JNull, events |-> gate,
             raised |-> "AttributeError"]
       ELSE IF ~Truthy(Get(assessment, "needs_search", JBool(TRUE)))
       THEN [stats |-> [stats EXCEPT !.entities_known = @ + 1],
             entry |-> [entity |-> entity_name, type |-> entity_type,
                        context |-> EGet(entity, "context"),
                        used_existing_knowledge |-> TRUE,
                        known_info |-> Get(assessment, "known_info", JStr("")),
                        reasoning |-> Get(assessment, "reasoning", JStr(""))],
             events |-> gate, raised |-> "none"]
       ELSE LET search_query == Get(assessment, "search_query",
                                    RecentNewsQuery(entity_name))
                searched == gate \o <<SearchEvent(entity_name, outcome)>>
            IN IF outcome.kind = "raise"
               THEN [stats |-> stats, entry |-> failed(outcome.message),
                     events |-> searched, raised |-> "none"]
               ELSE IF getattr(outcome.result, "error", "") # ""
               THEN [stats |-> stats, entry |-> failed(outcome.result.error),
                     events |-> searched, raised |-> "none"]
               ELSE LET sources == getattr(outcome.result, "sources", <<>>) IN
                    [stats |-> [stats EXCEPT !.entities_searched = @ + 1,
                                             !.linkup_sources = @ + Len(sources)],
                     entry |-> [entity |-> entity_name, type |-> entity_type,
                                context |-> EGet(entity, "context"),
                                sources |-> sources, query_used |-> search_query,
                                used_existing_knowledge |-> FALSE],
                     events |-> searched, raised |-> "none"]

Apex == [name |-> S_Apex_Ventures, type |-> S_organization,
         context |-> S_VC_firm_the_investor]
JaneDoe == [name |-> S_Jane_Doe, type |-> S_person,
            context |-> S_Managing_Director_at_Apex]
AcmeLabs == [name |-> S_acme_labs, type |-> S_company, context |-> S_A_portfolio_company]
DataFlow == [name |-> S_DataFlow, type |-> S_company, context |-> S_A_portfolio_company]
AcmeSender == [name |-> S_Acme, type |-> S_company, context |-> S_Email_sender]
AcmeBare == [name |-> S_Acme]
Unnamed == [type |-> S_person, context |-> S_mentioned_in_passing]
Ourselves == [name |-> S_Data_Flow_AI, type |-> S_company, context |-> S_Email_sender]
GenericAI == [name |-> S_AI, type |-> S_concept, context |-> S_mentioned_in_passing]

\* the lists extract_entities returns
EmailEntityLists ==
    {<<>>,
     <<Apex, AcmeLabs, GenericAI>>,
     <<AcmeLabs, Apex, DataFlow, Ourselves, AcmeBare>>,
     <<AcmeLabs, DataFlow, AcmeBare, Unnamed, GenericAI>>,
     <<AcmeSender, AcmeBare>>,
     <<JaneDoe, Ourselves>>}

\* the entities research_all_entities is given at most
MaxResearched == 3

NoRun ==
    [critical_entities |-> <<>>, skipped_entities |-> <<>>,
     entity_decisions |-> NoDecisions, research_data |-> EmptyMap,
     information_sources |-> EmptyMap,
     api_calls |-> [groq_knowledge_assessment |-> 0, linkup_searches |-> 0],
     stats |-> [total_entities |-> 0, entities_known |-> 0, entities_searched |-> 0,
                linkup_sources |-> 0]]

EmailInit ==
    /\ em_entities \in EmailEntityLists
    /\ em_pc \in {"analyze_email", "research_all_entities"}
    /\ em_pc = "research_all_entities" => Len(em_entities) <= MaxResearched
    /\ em_todo = IF em_pc = "research_all_entities" THEN em_entities ELSE <<>>
    /\ em_run = NoRun
    /\ em_events = <<>>
    /\ em_ret = [k |-> "none"]
    /\ TriIdle /\ GateIdle /\ ParseIdle /\ AttrIdle /\ RouterIdle /\ RouteIdle /\ SesIdle /\ SortIdle /\ LinkupIdle /\ RecallIdle /\ BriefingIdle /\ DraftIdle /\ CascadeIdle /\ RankIdle /\ SynthesisIdle

\* analyze_email, lines 770-830: the entities are prioritised, the critical
\* ones and the first validation ones are queued for research, and the
\* validation entities beyond the cap are put down as skipped
PrioritizeAndCap ==
    /\ em_pc = "analyze_email"
    /\ LET prioritized == _prioritize_entities(em_entities, EmailRecipient)
           validation_entities == prioritized.validation
           n == Len(validation_entities)
           skipped_validation == SubSeq(validation_entities, ValidationCap + 1, n)
       IN /\ em_todo' = prioritized.critical
                            \o SubSeq(validation_entities, 1, Min(n, ValidationCap))
          /\ em_run' = [em_run EXCEPT
                           !.critical_entities = prioritized.critical,
                           !.skipped_entities = prioritized.skip,
                           !.entity_decisions.skipped_generic =
                               @ \o Names(skipped_validation)]
    /\ em_pc' = "researching"
    /\ UNCHANGED <<em_entities, em_events, em_ret, notEmail>>

\* analyze_email, lines 833-945: one entity of entities_to_research
ResearchNext ==
    /\ em_pc = "researching"
    /\ em_todo # <<>>
    /\ \E assessment \in EmailAssessments(EGet(Head(em_todo), "name")) :
       \E outcome \in SearchOutcomes :
           LET it == ResearchIteration(em_run, Head(em_todo), assessment, outcome) IN
           /\ it.raised = "none"
           /\ em_run' = it.run
           /\ em_events' = em_events \o it.events
    /\ em_todo' = Tail(em_todo)
    /\ UNCHANGED <<em_entities, em_pc, em_ret, notEmail>>

\* analyze_email, lines 854-898: an exception outside the try leaves the call
ResearchNextRaises ==
    /\ em_pc = "researching"
    /\ em_todo # <<>>
    /\ \E assessment \in EmailAssessments(EGet(Head(em_todo), "name")) :
       \E outcome \in SearchOutcomes :
           LET it == ResearchIteration(em_run, Head(em_todo), assessment, outcome) IN
           /\ it.raised # "none"
           /\ em_run' = it.run
           /\ em_events' = em_events \o it.events
           /\ em_ret' = [k |-> "raised", raised |-> it.raised]
    /\ em_pc' = "done"
    /\ UNCHANGED <<em_entities, em_todo, notEmail>>

\* A log that leaves out the entities the triage skipped.
LogNothing(decisions, skipped_entities) == decisions

\* lines 948-953: the entities the triage skipped are put down
RECURSIVE LogSkipped(_, _)
LogSkipped(decisions, skipped_entities) ==
    IF skipped_entities = <<>> THEN decisions
    ELSE LET entity_name == EGet(Head(skipped_entities), "name") IN
         LogSkipped(IF _is_self_reference(entity_name, EmailRecipient)
                    THEN [decisions EXCEPT !.skipped_self_reference =
                                               Append(@, entity_name)]
                    ELSE [decisions EXCEPT !.skipped_generic = Append(@, entity_name)],
                    Tail(skipped_entities))

RECURSIVE SumOver(_, _)
SumOver(f, keys) ==
    IF keys = {} THEN 0
    ELSE LET key == CHOOSE x \in keys : TRUE IN f[key] + SumOver(f, keys \ {key})

\* lines 970-988 and 1057-1075: the counts of the returned stats
EmailStats(entities, entity_decisions, research_data) ==
    LET entities_with_knowledge == Len(entity_decisions.used_knowledge)
        entities_searched_critical == Len(entity_decisions.searched_unknown)
        entities_searched_validation == Len(entity_decisions.searched_validation)
        entities_searched == entities_searched_critical + entities_searched_validation
        entities_skipped_self == Len(entity_decisions.skipped_self_reference)
        entities_skipped_generic == Len(entity_decisions.skipped_generic)
        entities_skipped == entities_skipped_self + entities_skipped_generic
        total_entities_processed == entities_with_knowledge + entities_searched
        potential_searches == total_entities_processed + entities_skipped
    IN [total_entities_detected |-> Len(entities),
        total_entities_processed |-> total_entities_processed,
        entities_skipped_self_reference |-> entities_skipped_self,
        entities_skipped_generic |-> entities_skipped_generic,
        entities_used_knowledge |-> entities_with_knowledge,
        entities_searched_critical |-> entities_searched_critical,
        entities_searched_validation |-> entities_searched_validation,
        entities_searched |-> entities_searched,
        linkup_sources_found |->
            SumOver([name \in DOMAIN research_data |-> Len(research_data[name].sources)],
                    DOMAIN research_data),
        entity_decisions |-> entity_decisions,
        efficiency |-> [potential_searches |-> potential_searches,
                        actual_searches |-> entities_searched,
                        searches_avoided |-> potential_searches - entities_searched,
                        \* in tenths of a percent
                        efficiency_rate |->
                            IF potential_searches > 0
                            THEN Round(1000 * (potential_searches - entities_searched),
                                       potential_searches)
                            ELSE 0]]

\* analyze_email, lines 947-1098: the skipped entities are put down, the
\* reply is drafted and the result returned
ReturnAnalysis ==
    /\ em_pc = "researching"
    /\ em_todo = <<>>
    /\ LET entity_decisions == LogSkipped(em_run.entity_decisions,
                                          em_run.skipped_entities)
       IN /\ em_run' = [em_run EXCEPT !.entity_decisions = entity_decisions]
          /\ em_ret' = [k |-> "dict", entities |-> em_entities,
                        research |-> em_run.research_data,
                        stats |-> EmailStats(em_entities, entity_decisions,
                                             em_run.research_data),
                        information_sources |-> em_run.information_sources,
                        api_calls |-> em_run.api_calls]
    /\ em_events' = Append(em_events, Event("draft", <<>>))
    /\ em_pc' = "done"
    /\ UNCHANGED <<em_entities, em_todo, notEmail>>

\* research_all_entities, lines 370-376: one entity is researched, then the
\* loop sleeps
ResearchAllNext ==
    /\ em_pc = "research_all_entities"
    /\ em_todo # <<>>
    /\ \E assessment \in EmailAssessments(EGet(Head(em_todo), "name")) :
       \E outcome \in SearchOutcomes :
           LET entity_name == EGet(Head(em_todo), "name")
               counted == [em_run.stats EXCEPT !.total_entities = @ + 1]
               r == ResearchEntity(counted, Head(em_todo), assessment, outcome)
           IN /\ r.raised = "none"
              /\ em_run' = [em_run EXCEPT
                               !.stats = r.stats,
                               !.research_data = Put(@, entity_name, r.entry)]
              /\ em_events' = em_events \o r.events \o <<Sleep>>
    /\ em_todo' = Tail(em_todo)
    /\ UNCHANGED <<em_entities, em_pc, em_ret, notEmail>>

\* research_entity, line 288: a verdict that is no dict raises out of
\* research_all_entities
ResearchAllRaises ==
    /\ em_pc = "research_all_entities"
    /\ em_todo # <<>>
    /\ \E assessment \in EmailAssessments(EGet(Head(em_todo), "name")) :
       \E outcome \in SearchOutcomes :
           LET counted == [em_run.stats EXCEPT !.total_entities = @ + 1]
               r == ResearchEntity(counted, Head(em_todo), assessment, outcome)
           IN /\ r.raised # "none"
              /\ em_run' = [em_run EXCEPT !.stats = r.stats]
              /\ em_events' = em_events \o r.events
              /\ em_ret' = [k |-> "raised", raised |-> r.raised]
    /\ em_pc' = "done"
    /\ UNCHANGED <<em_entities, em_todo, notEmail>>

\* research_all_entities, lines 365-366 and 378
ReturnResearch ==
    /\ em_pc = "research_all_entities"
    /\ em_todo = <<>>
    /\ em_ret' = [k |-> "dict", research |-> em_run.research_data]
    /\ em_pc' = "done"
    /\ UNCHANGED <<em_entities, em_todo, em_run, em_events, notEmail>>

EmailNext ==
    \/ PrioritizeAndCap
    \/ ResearchNext
    \/ ResearchNextRaises
    \/ ReturnAnalysis
    \/ ResearchAllNext
    \/ ResearchAllRaises
    \/ ReturnResearch

SpecEmail == EmailInit /\ [][EmailNext]_vars

\* the calls made for the entity name, in order: the last ones are those of
\* the entry research_data keeps under the name
CallsFor(name) ==
    SelectSeq(em_events, LAMBDA ev : ev.e \in {"gate", "search"} /\ ev.name = name)
SearchesEnded(ended) ==
    Len(SelectSeq(em_events, LAMBDA ev : ev.e = "search" /\ ev.ended = ended))
SearchedNames == {em_events[i].name : i \in {j \in DOMAIN em_events : em_events[j].e = "search"}}
LastSearchFailed(name) ==
    LET calls == CallsFor(name)
        last == calls[Len(calls)]
    IN calls # <<>> /\ last.e = "search" /\ last.ended = "error"
\* the number of entities the call counts as searched
CountedAsSearched ==
    IF "stats" \in DOMAIN em_ret THEN em_ret.stats.entities_searched
    ELSE em_run.stats.entities_searched

\* C11: when the search provider fails for an entity (the search returns an
\* empty source list together with an error string), the research entry that
\* research_entity and analyze_email record for that entity carries the
\* error, and the entity is not counted as a successful search: no more
\* entities are counted as searched than searches ended without an error
\* string.
C11_FailedSearchCarriesError ==
    (em_pc = "done" /\ em_ret.k = "dict") =>
        /\ \A name \in SearchedNames :
               LastSearchFailed(name) => "error" \in DOMAIN em_ret.research[name]
        /\ CountedAsSearched <= SearchesEnded("ok") + SearchesEnded("raise")

\* What holds of C11: research_entity, and with it research_all_entities,
\* records the error and does not count the entity.
C11_ResearchEntityCarriesError ==
    (em_pc = "done" /\ em_ret.k = "dict" /\ "stats" \notin DOMAIN em_ret) =>
        /\ \A name \in SearchedNames :
               LastSearchFailed(name) => "error" \in DOMAIN em_ret.research[name]
        /\ CountedAsSearched <= SearchesEnded("ok") + SearchesEnded("raise")

\* the entities the gate was called for, in order
GatedNames ==
    LET gates == SelectSeq(em_events, LAMBDA ev : ev.e = "gate")
    IN [i \in DOMAIN gates |-> gates[i].name]
Triage == _prioritize_entities(em_entities, EmailRecipient)
CappedValidation ==
    SubSeq(Triage.validation, 1, Min(Len(Triage.validation), ValidationCap))
BeyondCap ==
    SubSeq(Triage.validation, ValidationCap + 1, Len(Triage.validation))
\* the entities the triage skipped as generic terms
GenericSkips ==
    SelectSeq(Triage.skip,
              LAMBDA e : ~_is_self_reference(EGet(e, "name"), EmailRecipient))

\* C13: in analyze_email every CRITICAL entity and at most the first 2
\* VALIDATION entities are researched, and every VALIDATION entity beyond the
\* cap is recorded as skipped for efficiency in a way that the returned
\* entity_decisions and skip counts keep distinct from generic-term skips and
\* self-reference skips: skipped_generic and its count hold the generic-term
\* skips only.
C13_CapSkipsKeptDistinct ==
    (em_pc = "done" /\ em_ret.k = "dict" /\ "stats" \in DOMAIN em_ret) =>
        /\ GatedNames = Names(Triage.critical \o CappedValidation)
        /\ \A i \in DOMAIN BeyondCap :
               EGet(BeyondCap[i], "name") \notin Range(GatedNames)
        /\ em_ret.stats.entity_decisions.skipped_generic = Names(GenericSkips)
        /\ em_ret.stats.entities_skipped_generic = Len(GenericSkips)

\* What holds of C13: the critical entities and the first 2 validation
\* entities are researched, in that order, and the validation entities beyond
\* the cap are put down in skipped_generic, ahead of the generic-term skips.
C13_CapIsApplied ==
    (em_pc = "done" /\ em_ret.k = "dict" /\ "stats" \in DOMAIN em_ret) =>
        /\ GatedNames = Names(Triage.critical \o CappedValidation)
        /\ em_ret.stats.entity_decisions.skipped_generic
               = Names(BeyondCap) \o Names(GenericSkips)
        /\ em_ret.stats.entities_skipped_generic = Len(BeyondCap) + Len(GenericSkips)

\* between any two calls of the search provider in the list there is a sleep
Paced(events) ==
    \A i, j \in DOMAIN events :
        (i < j /\ events[i].e = "search" /\ events[j].e = "search") =>
            \E k \in (i + 1)..(j - 1) : events[k].e = "sleep"

\* What holds of C20: in the entity-research loops of the email pipeline
\* (analyze_email and research_all_entities) the fixed delay lies between any
\* two successive calls of the search provider.
C20_EmailSearchesArePaced == Paced(em_events)

\* ------------------------------------------------- memory recall, ranked
\* MemoryStore.get_company_context and what it calls: the keyword match, the
\* relevance scores with their recency bonus, the relevance filters, the
\* thread dedupe. A record is a function from its field names to their
\* values: texts are character strings, date and timestamp are as in the
\* sort above, id is the record's place in its source. The clock is counted
\* in seconds since the epoch.

SecondsPerUnit == 100000000
\* timedelta(days=30) and timedelta(days=90), in seconds
RecentAge == 2592000
PartialAge == 7776000
\* the relevance threshold and the size of the fallback
ScoreThreshold == 2
FallbackSize == 3

S_re == <<"r", "e">>
S_fw == <<"f", "w">>
S_fwd == <<"f", "w", "d">>
S_noreply == <<"n", "o", "r", "e", "p", "l", "y">>
S_no_reply == <<"n", "o", "-", "r", "e", "p", "l", "y">>
S_slack_com == <<"s", "l", "a", "c", "k", ".", "c", "o", "m">>
S_github_com == <<"g", "i", "t", "h", "u", "b", ".", "c", "o", "m">>
S_notifications_google_com == <<"n", "o", "t", "i", "f", "i", "c", "a", "t", "i", "o", "n", "s", ".", "g", "o", "o", "g", "l", "e", ".", "c", "o", "m">>

\* An intermediate result that is used more than once is bound as the one
\* element of a set, which computes it once.

\* a or b, on strings
Or(a, b) == IF a # <<>> THEN a ELSE b

\* \s and \w of the re module
BlankChars == {" ", "\t"}
DigitChars == {"0", "1", "2", "3", "4", "5", "6", "7", "8", "9"}
WordChars == LowerChars \cup UpperChars \cup DigitChars \cup {"_"}
\* [\w\.-]
AddrChars == WordChars \cup {".", "-"}

\* the last place of the run of characters of chars that starts at i
RECURSIVE RunEnd(_, _, _)
RunEnd(text, i, chars) ==
    IF i <= Len(text) /\ text[i] \in chars THEN RunEnd(text, i + 1, chars) ELSE i - 1

\* where the group ([\w\.-]+\.\w+) ends when it starts at i: the first part
\* is greedy, so the dot is the last one of the run that a word character
\* follows; 0 when the group does not match
DomainEnd(text, i) ==
    LET q == RunEnd(text, i, AddrChars)
        dots == {d \in (i + 1)..(q - 1) : text[d] = "." /\ text[d + 1] \in WordChars}
    IN IF dots = {} THEN 0
       ELSE RunEnd(text, (CHOOSE d \in dots : \A e \in dots : e <= d) + 1, WordChars)

\* re.search(r'[\w\.-]+@([\w\.-]+\.\w+)', text): group 1 of the leftmost
\* match, lower-cased, or ""
_extract_email_domain(text) ==
    LET ats == {p \in 2..Len(text) :
                   /\ text[p] = "@"
                   /\ text[p - 1] \in AddrChars
                   /\ DomainEnd(text, p + 1) # 0}
    IN IF ats = {} THEN <<>>
       ELSE LET p == CHOOSE a \in ats : \A b \in ats : a <= b
            IN Lower(SubSeq(text, p + 1, DomainEnd(text, p + 1)))

\* where ^\s*(re|fw|fwd)\s*:\s* ends in cleaned, 0 when it does not match
PrefixEnd(cleaned) ==
    LET start == RunEnd(cleaned, 1, BlankChars) + 1
        ends == {RunEnd(cleaned, start + Len(p), BlankChars) + 1 : p \in
                    {p \in {S_re, S_fw, S_fwd} :
                         /\ start + Len(p) - 1 <= Len(cleaned)
                         /\ SubSeq(cleaned, start, start + Len(p) - 1) = p}}
        colons == {c \in ends : c <= Len(cleaned) /\ cleaned[c] = ":"}
    IN IF colons = {} THEN 0
       ELSE RunEnd(cleaned, (CHOOSE c \in colons : TRUE) + 1, BlankChars)

\* re.sub(r'\s+', ' ', cleaned).strip()
CollapseBlanks(cleaned) ==
    Join(SplitWords([i \in DOMAIN cleaned |->
                        IF cleaned[i] \in BlankChars THEN " " ELSE cleaned[i]]), " ")

_normalize_subject(subject) ==
    IF subject = <<>> THEN <<>>
    ELSE LET cleaned == Lower(subject)
             cut == PrefixEnd(cleaned)
         IN CollapseBlanks(SubSeq(cleaned, cut + 1, Len(cleaned)))

\* the fields of a record that hold a text
TextFields(record) == DOMAIN record \ {"id", "date", "timestamp", "attendees"}

\* _matches(record, keyword): some string field holds the keyword
_matches(record, keyword) ==
    \E f \in TextFields(record) : Contains(Lower(record[f]), Lower(keyword))

\* full weight within 30 days and partial weight within 90, the bounds left out
RecentScoreExclusive(dt, now) ==
    IF dt = NoDate THEN 0
    ELSE LET age == now - dt.t * SecondsPerUnit
         IN IF age < RecentAge THEN 2
            ELSE IF age < PartialAge THEN 1
            ELSE 0

\* _recent_score(dt) when datetime.now() reads now
_recent_score(dt, now) ==
    IF dt = NoDate THEN 0
    ELSE LET age == now - dt.t * SecondsPerUnit
         IN IF age <= RecentAge THEN 2
            ELSE IF age <= PartialAge THEN 1
            ELSE 0

_score_email(company, email, now) ==
    LET company_lower == Lower(company)
        subject == Lower(Or(EGet(email, "subject"), EGet(email, "title")))
        body == Lower(Or(EGet(email, "body"), EGet(email, "content")))
        from_field == Lower(Or(EGet(email, "from"), EGet(email, "sender")))
        to_field == Lower(EGet(email, "to"))
        domain == _extract_email_domain(from_field)
    IN (IF Contains(subject, company_lower) THEN 3 ELSE 0)
       + (IF Contains(body, company_lower) THEN 2 ELSE 0)
       + (IF Contains(from_field, company_lower) \/ Contains(to_field, company_lower)
          THEN 2 ELSE 0)
       + (IF company_lower # <<>> /\ domain # <<>> /\ Contains(domain, company_lower)
          THEN 3 ELSE 0)
       - (IF Contains(from_field, S_noreply) \/ Contains(from_field, S_no_reply)
          THEN 2 ELSE 0)
       - (IF /\ domain \in {S_slack_com, S_github_com, S_notifications_google_com}
             /\ ~Contains(subject, company_lower)
          THEN 2 ELSE 0)
       + _recent_score(_parse_datetime(email), now)

\* " ".join(conv.get('attendees', [])) when that is a list, else ""
Attendees(conv) ==
    IF "attendees" \in DOMAIN conv THEN Join(conv.attendees, " ") ELSE <<>>

_score_conversation(company, conv, now) ==
    LET company_lower == Lower(company)
        topic == Lower(Or(EGet(conv, "topic"), EGet(conv, "subject")))
        notes == Lower(Or(EGet(conv, "notes"), EGet(conv, "summary")))
        attendees == Lower(Attendees(conv))
        company_field == Lower(EGet(conv, "company"))
    IN (IF Contains(topic, company_lower) THEN 3 ELSE 0)
       + (IF Contains(notes, company_lower) THEN 2 ELSE 0)
       + (IF Contains(attendees, company_lower) THEN 2 ELSE 0)
       + (IF company_lower # <<>> /\ Contains(company_field, company_lower)
          THEN 3 ELSE 0)
       + _recent_score(_parse_datetime(conv), now)


\* the place of the i-th entry after list.sort(key=score, reverse=True): the
\* sort is stable
ScorePlace(scores, i) ==
    1 + Cardinality({j \in DOMAIN scores :
                        \/ scores[j] > scores[i]
                        \/ scores[j] = scores[i] /\ j < i})

\* scored.sort(...), then the records at or above the threshold or, when
\* there is none, the first three; lines 183-186 and 202-205
Scored(records, scores) ==
    [p \in DOMAIN records |->
        LET i == CHOOSE i \in DOMAIN records : ScorePlace(scores, i) = p
        IN [s |-> scores[i], r |-> records[i]]]
Chosen(scored) ==
    LET filtered == SelectSeq(scored, LAMBDA x : x.s >= ScoreThreshold)
    IN IF filtered = <<>>
       THEN SubSeq(scored, 1, Min(FallbackSize, Len(scored)))
       ELSE filtered
Relevant(records, scores) ==
    CHOOSE relevant \in {[i \in DOMAIN chosen |-> chosen[i].r] :
                            chosen \in {Chosen(scored) :
                                           scored \in {Scored(records, scores)}}} : TRUE

_filter_emails(company, emails, now) ==
    CHOOSE sorted \in
        {_sort_by_date(relevant) :
            relevant \in {Relevant(emails, scores) :
                             scores \in {[i \in DOMAIN emails |->
                                             _score_email(company, emails[i], now)]}}} : TRUE

_filter_conversations(company, conversations, now) ==
    CHOOSE sorted \in
        {_sort_by_date(relevant) :
            relevant \in {Relevant(conversations, scores) :
                             scores \in {[i \in DOMAIN conversations |->
                                             _score_conversation(company, conversations[i],
                                                                 now)]}}} : TRUE

\* the key of a record in seen: its normalized subject, or its id
ThreadKey(em) ==
    LET key == _normalize_subject(Or(EGet(em, "subject"), EGet(em, "title")))
    IN IF key # <<>> THEN [subject |-> key, id |-> 0]
       ELSE [subject |-> <<>>, id |-> em.id]

\* _dedupe_emails: of the sorted records, the first of every key
FirstOfKey(sorted, keys) ==
    LET kept == SelectSeq([i \in DOMAIN sorted |->
                              [keep |-> \A j \in 1..(i - 1) : keys[j] # keys[i],
                               r |-> sorted[i]]],
                          LAMBDA x : x.keep)
    IN [i \in DOMAIN kept |-> kept[i].r]
_dedupe_emails(emails) ==
    CHOOSE deduped \in
        {IF sorted.raised # "none" THEN sorted
         ELSE [raised |-> "none",
               value |-> CHOOSE kept \in
                             {FirstOfKey(sorted.value, keys) :
                                 keys \in {[i \in DOMAIN sorted.value |->
                                               ThreadKey(sorted.value[i])]}} : TRUE] :
            sorted \in {_sort_by_date(emails)}} : TRUE

\* _filter_emails followed by _dedupe_emails
FilterAndDedupe(company, emails, now) ==
    CHOOSE deduped \in
        {IF filtered.raised # "none" THEN filtered ELSE _dedupe_emails(filtered.value) :
            filtered \in {_filter_emails(company, emails, now)}} : TRUE

\* what a call of the Gmail or Calendar client does
NoClient == [kind |-> "none"]
FetchRaises == [kind |-> "raise"]
FetchReturns(records) == [kind |-> "return", records |-> records]

Matching(records, company) == SelectSeq(records, LAMBDA r : _matches(r, company))

\* search_emails(company): the Gmail answer when there is one and nothing
\* raises on the way, else the matches of the cache
NoAnswer == [raised |-> "no answer", value |-> <<>>]
search_emails(company, gmail, cache, now) ==
    CHOOSE found \in
        {IF live.raised = "none" THEN live
         ELSE FilterAndDedupe(company, Matching(cache, company), now) :
            live \in {IF gmail.kind = "return" /\ gmail.records # <<>>
                      THEN FilterAndDedupe(company, gmail.records, now)
                      ELSE NoAnswer}} : TRUE

search_conversations(company, calendar, cache, now) ==
    CHOOSE found \in
        {IF live.raised = "none" THEN live
         ELSE _filter_conversations(company, Matching(cache, company), now) :
            live \in {IF calendar.kind = "return" /\ calendar.records # <<>>
                      THEN _filter_conversations(company, calendar.records, now)
                      ELSE NoAnswer}} : TRUE

\* record.get('date', record.get('timestamp'))
RawDate(record) == IF record.date # NoDate THEN record.date ELSE record.timestamp

\* a < b on two date strings: ISO strings of one format are ordered as their
\* times and, of one time, the shorter first; a text of letters is above them
StringKey(raw) ==
    IF raw.form = "iso" THEN <<0, raw.t, Len(raw.tz)>> ELSE <<1, 0, 0>>
StringLess(a, b) ==
    LET x == StringKey(a) y == StringKey(b)
    IN \/ x[1] < y[1]
       \/ x[1] = y[1] /\ x[2] < y[2]
       \/ x[1] = y[1] /\ x[2] = y[2] /\ x[3] < y[3]
RawLess(a, b) == IF a.k = "num" THEN a.n < b.n ELSE StringLess(a, b)

\* all_dates.sort(reverse=True); all_dates[0], lines 357-363
LastContact(records) ==
    LET all_dates == SelectSeq([i \in DOMAIN records |-> RawDate(records[i])], DateTruthy)
    IN IF \E i, j \in DOMAIN all_dates : all_dates[i].k # all_dates[j].k
       THEN [raised |-> "TypeError", value |-> NoDate]
       ELSE IF all_dates = <<>> THEN [raised |-> "none", value |-> NoDate]
       ELSE [raised |-> "none",
             value |-> CHOOSE d \in Range(all_dates) :
                           \A e \in Range(all_dates) : ~RawLess(d, e)]

\* get_company_context(company) with the clock at now (the summary, a text
\* built from the two lists, is left out)
Context(company, emails, conversations, last_contact) ==
    IF emails.raised # "none" \/ conversations.raised # "none"
       \/ last_contact.raised # "none"
    THEN [raised |-> "TypeError"]
    ELSE [raised |-> "none",
          company |-> company,
          emails |-> emails.value,
          conversations |-> conversations.value,
          total_interactions |-> Len(emails.value) + Len(conversations.value),
          last_contact |-> last_contact.value]
get_company_context(company, gmail, calendar, cache, now) ==
    CHOOSE context \in
        {Context(company, emails, conversations,
                 LastContact(emails.value \o conversations.value)) :
            emails \in {search_emails(company, gmail, cache.emails, now)},
            conversations \in {search_conversations(company, calendar,
                                                    cache.conversations, now)}} : TRUE


\* the records of the stores
S_Re_Acme_pricing == <<"R", "e", ":", " ", "A", "c", "m", "e", " ", "p", "r", "i", "c", "i", "n", "g">>
S_acme_pricing_spaced == <<"a", "c", "m", "e", " ", " ", "p", "r", "i", "c", "i", "n", "g">>
S_jane_at_acme == <<"J", "a", "n", "e", " ", "<", "j", "a", "n", "e", "@", "a", "c", "m", "e", ".", "c", "o", "m", ">">>
S_Weekly_digest == <<"W", "e", "e", "k", "l", "y", " ", "d", "i", "g", "e", "s", "t">>
S_News_about_Acme == <<"N", "e", "w", "s", " ", "a", "b", "o", "u", "t", " ", "A", "c", "m", "e">>
S_noreply_news == <<"n", "o", "r", "e", "p", "l", "y", "@", "n", "e", "w", "s", ".", "e", "x", "a", "m", "p", "l", "e", ".", "o", "r", "g">>
S_Acme_intro == <<"A", "c", "m", "e", " ", "i", "n", "t", "r", "o">>
S_Acme_renewal == <<"A", "c", "m", "e", " ", "r", "e", "n", "e", "w", "a", "l">>
S_Build_failed == <<"B", "u", "i", "l", "d", " ", "f", "a", "i", "l", "e", "d">>
S_acme_repo == <<"a", "c", "m", "e", "/", "r", "e", "p", "o">>
S_github_notifications == <<"n", "o", "t", "i", "f", "i", "c", "a", "t", "i", "o", "n", "s", "@", "g", "i", "t", "h", "u", "b", ".", "c", "o", "m">>
S_Acme_kickoff == <<"A", "c", "m", "e", " ", "k", "i", "c", "k", "o", "f", "f">>
S_Weekly_standup == <<"W", "e", "e", "k", "l", "y", " ", "s", "t", "a", "n", "d", "u", "p">>
S_ping_acme == <<"p", "i", "n", "g", " ", "a", "c", "m", "e", " ", "a", "b", "o", "u", "t", " ", "t", "h", "e", " ", "i", "n", "v", "o", "i", "c", "e">>
S_Dentist == <<"D", "e", "n", "t", "i", "s", "t">>
S_Acme_HQ == <<"A", "c", "m", "e", " ", "H", "Q">>

Email(fields, date) ==
    [f \in DOMAIN fields \cup {"date", "timestamp"} |->
        IF f = "date" THEN date
        ELSE IF f = "timestamp" THEN NoDate
        ELSE fields[f]]

\* a thread, its newer and its older message
Pricing == Email([subject |-> S_Re_Acme_pricing, from |-> S_jane_at_acme], IsoString(17, ""))
PricingOld == Email([subject |-> S_acme_pricing_spaced, from |-> S_jane_at_acme], IsoString(16, ""))
\* records whose score reaches the threshold by the recency bonus alone
Digest ==
    Email([subject |-> S_Weekly_digest, body |-> S_News_about_Acme, from |-> S_noreply_news],
          IsoString(17, ""))
Build ==
    Email([title |-> S_Build_failed, content |-> S_acme_repo, sender |-> S_github_notifications],
          IsoString(17, ""))
\* a record without a date, and one whose date carries an offset
Intro == Email([body |-> S_Acme_intro], NoDate)
Renewal == Email([subject |-> S_Acme_renewal], IsoString(17, "Z"))
\* a record dated by an epoch timestamp
Stamped ==
    [subject |-> S_Acme_kickoff, date |-> NoDate, timestamp |-> EpochNumber(17)]
EmailRecords == {Pricing, PricingOld, Digest, Build, Intro, Renewal, Stamped}

Kickoff ==
    Email([topic |-> S_Acme_kickoff, company |-> S_Acme, attendees |-> <<S_Jane_Doe>>],
          IsoString(17, ""))
Standup == Email([topic |-> S_Weekly_standup, notes |-> S_ping_acme], IsoString(16, ""))
Dentist == Email([topic |-> S_Dentist, location |-> S_Acme_HQ], IsoString(17, ""))
ConversationRecords == {Kickoff, Standup, Dentist}

\* records[i] with the id base + i
Numbered(records, base) ==
    [i \in DOMAIN records |->
        [f \in DOMAIN records[i] \cup {"id"} |->
            IF f = "id" THEN base + i ELSE records[i][f]]]

MaxCached == 2
MaxTicks == 2
\* the seconds that pass between two readings of the clock
ClockStep == 120
\* the reading at which the records of time 17 are of the age given
At(age) == 17 * SecondsPerUnit + age
NowValues == {At(RecentAge - ClockStep), At(PartialAge - ClockStep), At(4 * PartialAge)}

NoGoogle == [on |-> FALSE, emails |-> <<>>, events |-> <<>>]
Google(emails, events) ==
    [on |-> TRUE, emails |-> Numbered(emails, 10), events |-> Numbered(events, 20)]
Cache(emails, conversations) ==
    [emails |-> Numbered(emails, 0), conversations |-> Numbered(conversations, 5)]

\* the cache files alone, or the Google clients before a small cache
RecallStores ==
    {[cache |-> Cache(e, c), google |-> NoGoogle] :
        e \in SeqsUpTo(EmailRecords, MaxCached), c \in SeqsUpTo(ConversationRecords, 1)}
    \cup
    {[cache |-> Cache(e, c), google |-> Google(m, v)] :
        e \in {<<>>, <<Pricing>>}, c \in {<<>>, <<Standup>>},
        m \in {<<>>, <<Digest>>, <<Pricing, Renewal>>}, v \in {<<>>, <<Dentist>>}}

RecallInit ==
    /\ rc_company = S_Acme
    /\ \E store \in RecallStores : rc_cache = store.cache /\ rc_google = store.google
    /\ rc_now \in NowValues
    /\ rc_pc = "first"
    /\ rc_calls = <<>>
    /\ rc_out = <<>>
    /\ TriIdle /\ GateIdle /\ ParseIdle /\ AttrIdle /\ RouterIdle /\ RouteIdle /\ SesIdle /\ SortIdle /\ LinkupIdle /\ EmailIdle /\ BriefingIdle /\ DraftIdle /\ CascadeIdle /\ RankIdle /\ SynthesisIdle

\* what the Gmail client and the Calendar client may do at a call
GmailAnswers ==
    IF rc_google.on THEN {FetchRaises, FetchReturns(rc_google.emails)} ELSE {NoClient}
CalendarAnswers ==
    IF rc_google.on THEN {FetchRaises, FetchReturns(rc_google.events)} ELSE {NoClient}

\* one call of get_company_context: it returns, or raises
Recall(context, gmail, calendar) ==
    /\ rc_out' = Append(rc_out, context)
    /\ rc_calls' = Append(rc_calls, [now |-> rc_now, gmail |-> gmail.kind,
                                     calendar |-> calendar.kind])
    /\ rc_pc' = IF rc_pc = "first" THEN "second" ELSE "done"
    /\ UNCHANGED <<rc_company, rc_cache, rc_google, rc_now, notRecall>>

GetCompanyContext ==
    /\ rc_pc \in {"first", "second"}
    /\ \E gmail \in GmailAnswers, calendar \in CalendarAnswers :
       \E context \in {get_company_context(rc_company, gmail, calendar, rc_cache, rc_now)} :
           /\ context.raised = "none"
           /\ Recall(context, gmail, calendar)

GetCompanyContextRaises ==
    /\ rc_pc \in {"first", "second"}
    /\ \E gmail \in GmailAnswers, calendar \in CalendarAnswers :
       \E context \in {get_company_context(rc_company, gmail, calendar, rc_cache, rc_now)} :
           /\ context.raised # "none"
           /\ Recall(context, gmail, calendar)

\* time passes between the two calls
Tick ==
    /\ rc_pc = "second"
    /\ rc_now + ClockStep <= rc_calls[1].now + MaxTicks * ClockStep
    /\ rc_now' = rc_now + ClockStep
    /\ UNCHANGED <<rc_company, rc_cache, rc_google, rc_pc, rc_calls, rc_out, notRecall>>

RecallNext ==
    \/ GetCompanyContext
    \/ GetCompanyContextRaises
    \/ Tick

SpecRecall == RecallInit /\ [][RecallNext]_vars

\* the records get_company_context may read
StoreRecords ==
    Range(rc_cache.emails) \cup Range(rc_cache.conversations)
        \cup Range(rc_google.emails) \cup Range(rc_google.events)

\* the age of the record is on the same side of the 30 days and of the 90
\* days at the two readings of the clock
SameSide(record, a, b) ==
    LET at == _parse_datetime(record).t * SecondsPerUnit
    IN \/ _parse_datetime(record) = NoDate
       \/ /\ (a - at <= RecentAge) <=> (b - at <= RecentAge)
          /\ (a - at <= PartialAge) <=> (b - at <= PartialAge)

TwoCalls == rc_pc = "done"
SameAnswers ==
    /\ rc_calls[1].gmail = rc_calls[2].gmail
    /\ rc_calls[1].calendar = rc_calls[2].calendar
NoAgeCrossing ==
    \A record \in StoreRecords : SameSide(record, rc_calls[1].now, rc_calls[2].now)

\* C14: two successive calls of get_company_context for the same subject,
\* with no write to the backing store between them, return identical emails
\* and conversations lists in identical order, identical total_interactions
\* and identical last_contact.
C14_RecallIsIdempotent ==
    TwoCalls => rc_out[2] = rc_out[1]

\* C14, amended: the two calls give the same result (the same lists in the
\* same order, the same total_interactions and last_contact, or the same
\* exception) when, besides the store, what the scores are taken from is the
\* same at both calls: no record's age crosses the 30 days or the 90 days of
\* the recency bonus between them, and the Gmail and Calendar clients, where
\* configured, answer both calls or fail both.
C14_IdempotentWhileNoAgeCrosses ==
    (TwoCalls /\ SameAnswers /\ NoAgeCrossing) => rc_out[2] = rc_out[1]

C14_Witness ==
    /\ TwoCalls /\ SameAnswers /\ NoAgeCrossing
    /\ rc_calls[2].now > rc_calls[1].now
    /\ rc_out[1].raised = "none"
    /\ Len(rc_out[1].emails) = 2
    /\ Len(rc_out[1].conversations) = 1
    /\ rc_out[1].last_contact # NoDate
    /\ \E record \in StoreRecords :
           _recent_score(_parse_datetime(record), rc_calls[2].now) > 0
    /\ rc_out[2] = rc_out[1]


\* ------------------------------------------------------ meeting pipeline
\* MeetingAgent.prepare_briefing(company_name, meeting_context): the memory
\* lookup, the news search, the industry search, the synthesis, and the
\* confidence and attribution of the result. What the memory store, the
\* search wrapper and the synthesis give back are the inputs; confidence is
\* counted in hundredths.

S_Acme_raises_Series_B == <<"A", "c", "m", "e", " ", "r", "a", "i", "s", "e", "s", " ", "S", "e", "r", "i", "e", "s", " ", "B">>
S_ACME_ships_v2 == <<"A", "C", "M", "E", " ", "s", "h", "i", "p", "s", " ", "v", "2">>
S_Market_update == <<"M", "a", "r", "k", "e", "t", " ", "u", "p", "d", "a", "t", "e">>
S_says_Acme_CEO == <<"R", "a", "t", "e", "s", " ", "a", "r", "e", " ", "u", "p", ",", " ", "s", "a", "y", "s", " ", "A", "c", "m", "e", " ", "C", "E", "O">>
S_Funding_roundup == <<"F", "u", "n", "d", "i", "n", "g", " ", "r", "o", "u", "n", "d", "u", "p">>
S_Unauthorized == <<"4", "0", "1", " ", "U", "n", "a", "u", "t", "h", "o", "r", "i", "z", "e", "d">>

\* a source of LinkupWrapper.search
Source(title, snippet) == [title |-> title, snippet |-> snippet]
SeriesB == Source(S_Acme_raises_Series_B, <<>>)
ShipsV2 == Source(S_ACME_ships_v2, <<>>)
MarketUpdate == Source(S_Market_update, S_says_Acme_CEO)
FundingRoundup == Source(S_Funding_roundup, <<>>)

\* what self.linkup.search gives: a dict with the sources, the dict of a
\* provider error, or an exception
Found(sources) == SearchReturns([sources |-> sources, total_found |-> Len(sources)])
ProviderError == SearchReturns([sources |-> <<>>, error |-> S_Unauthorized])
MeetingSearches ==
    {Found(<<>>), Found(<<SeriesB>>), Found(<<FundingRoundup>>),
     Found(<<FundingRoundup, ShipsV2, MarketUpdate>>),
     ProviderError, SearchRaised(S_Unauthorized)}

\* company_lower in (s.get('title', '') + s.get('snippet', '')).lower()
MentionsCompany(source, company) ==
    Contains(Lower(EGet(source, "title") \o EGet(source, "snippet")), Lower(company))

\* _search_news(company) and _search_industry(company): the sources that
\* mention the company when there are any, else all of them; the except
\* branch gives the dict of an error
_search_news(company, outcome) ==
    IF outcome.kind = "raise" THEN [sources |-> <<>>, error |-> outcome.message]
    ELSE LET result == outcome.result
             sources == EGet(result, "sources")
             relevant == SelectSeq(sources, LAMBDA s : MentionsCompany(s, company))
         IN IF relevant # <<>> THEN Put(result, "sources", relevant) ELSE result
_search_industry(company, outcome) == _search_news(company, outcome)

\* 0.3 + 0.3 for three sources and more, the elif left out
ConfidenceStackingWebCredits(context, sources, briefing) ==
    LET credits == (IF context.total_interactions > 0 THEN 30 ELSE 0)
                   + (IF Len(sources) >= 3 THEN 30 ELSE 0)
                   + (IF Len(sources) >= 1 THEN 15 ELSE 0)
                   + (IF EGet(EGet(briefing, "briefing_data"), "talking_points") # <<>>
                      THEN 30 ELSE 0)
                   + (IF DateTruthy(context.last_contact) THEN 10 ELSE 0)
    IN Min(credits, 100)

\* _calculate_confidence(context, sources, briefing), in hundredths: the sum
\* of the floats 0.3, 0.15 and 0.1 is within 10^-15 of the sum of the
\* hundredths, and round(score, 2) gives that sum
_calculate_confidence(context, sources, briefing) ==
    LET score == (IF context.total_interactions > 0 THEN 30 ELSE 0)
                 + (IF Len(sources) >= 3 THEN 30
                    ELSE IF Len(sources) >= 1 THEN 15 ELSE 0)
                 + (IF EGet(EGet(briefing, "briefing_data"), "talking_points") # <<>>
                    THEN 30 ELSE 0)
                 + (IF DateTruthy(context.last_contact) THEN 10 ELSE 0)
    IN Min(score, 100)

\* what get_company_context gives: the counts of a context, or an exception
MaxMemory == 4
ContextRaises == [raised |-> "TypeError"]
MemoryContexts ==
    {[raised |-> "none", total_interactions |-> n, last_contact |-> d] :
        n \in 0..MaxMemory, d \in {NoDate, IsoString(17, "")}}
    \ {[raised |-> "none", total_interactions |-> 0, last_contact |-> IsoString(17, "")]}

\* what _synthesize_briefing gives: briefing_data with its talking points and
\* its recent news ("", a prose, or the text of a failure), or the text alone
NewsTexts == {"", "prose", "unable to fetch news"}
Synthesized(talking_points, recent_news) ==
    [briefing_text |-> "briefing",
     briefing_data |-> [talking_points |-> talking_points, recent_news |-> recent_news]]
BriefingResults ==
    {Synthesized(p, n) : p \in {<<>>, <<"point 1", "point 2">>}, n \in NewsTexts}
    \cup {[briefing_text |-> "briefing"], <<>>}

\* lines 129-145: recent news that is empty or tells of a failure is replaced
FixNews(briefing_result, news_results) ==
    LET briefing_data == EGet(briefing_result, "briefing_data")
        recent_news == IF briefing_data = <<>> THEN ""
                       ELSE IF "recent_news" \in DOMAIN briefing_data
                       THEN briefing_data.recent_news ELSE ""
        needs_news_fix == recent_news \in {"", "unable to fetch news"}
    IN IF ~needs_news_fix THEN briefing_result
       ELSE Put(briefing_result, "briefing_data",
                Put(briefing_data, "recent_news",
                    IF EGet(news_results, "sources") # <<>>
                    THEN "summary of the sources" ELSE "No company-specific news was found"))

\* lines 156-159: the relationship summary, when there is one, is the past context
WithPastContext(briefing_result, relationship_summary) ==
    IF relationship_summary = "" THEN briefing_result
    ELSE Put(briefing_result, "briefing_data",
             Put(EGet(briefing_result, "briefing_data"), "past_context", relationship_summary))

\* the dict prepare_briefing returns, lines 161-179
BriefingReturned(context, news_results, industry_results, synthesized, relationship_summary) ==
    LET all_sources == EGet(news_results, "sources") \o EGet(industry_results, "sources")
        briefing_result == WithPastContext(FixNews(synthesized, news_results),
                                           relationship_summary)
    IN [k |-> "dict",
        reasoning_steps |-> [step \in 1..5 |-> "complete"],
        past_interactions |-> [total |-> context.total_interactions,
                               last_contact |-> context.last_contact],
        linkup_sources |-> all_sources,
        result |-> IF "briefing_text" \in DOMAIN briefing_result
                   THEN briefing_result.briefing_text ELSE "Unable to generate briefing.",
        briefing_data |-> EGet(briefing_result, "briefing_data"),
        confidence |-> _calculate_confidence(context, all_sources, briefing_result),
        source_attribution |->
            _calculate_source_attribution(context.total_interactions, Len(all_sources))]

BriefingInit ==
    /\ br_context \in MemoryContexts \cup {ContextRaises}
    /\ br_pc = "memory"
    /\ br_news = <<>>
    /\ br_industry = <<>>
    /\ br_events = <<>>
    /\ br_ret = [k |-> "none"]
    /\ TriIdle /\ GateIdle /\ ParseIdle /\ AttrIdle /\ RouterIdle /\ RouteIdle /\ SesIdle /\ SortIdle /\ LinkupIdle /\ EmailIdle /\ RecallIdle /\ DraftIdle /\ CascadeIdle /\ RankIdle /\ SynthesisIdle

\* step 1: self.memory.get_company_context(company_name)
SearchMemory ==
    /\ br_pc = "memory"
    /\ br_context.raised = "none"
    /\ br_events' = Append(br_events, [e |-> "memory"])
    /\ br_pc' = "news"
    /\ UNCHANGED <<br_context, br_news, br_industry, br_ret, notBriefing>>

\* the exception of get_company_context leaves prepare_briefing
SearchMemoryRaises ==
    /\ br_pc = "memory"
    /\ br_context.raised # "none"
    /\ br_events' = Append(br_events, [e |-> "memory"])
    /\ br_ret' = [k |-> "raise", error |-> br_context.raised]
    /\ br_pc' = "done"
    /\ UNCHANGED <<br_context, br_news, br_industry, notBriefing>>

\* step 2: self._search_news(company_name)
SearchNews ==
    /\ br_pc = "news"
    /\ \E outcome \in MeetingSearches :
           /\ br_news' = _search_news(S_Acme, outcome)
           /\ br_events' = Append(br_events, SearchEvent("news", outcome))
    /\ br_pc' = "industry"
    /\ UNCHANGED <<br_context, br_industry, br_ret, notBriefing>>

\* step 3: self._search_industry(company_name)
SearchIndustry ==
    /\ br_pc = "industry"
    /\ \E outcome \in MeetingSearches :
           /\ br_industry' = _search_industry(S_Acme, outcome)
           /\ br_events' = Append(br_events, SearchEvent("industry", outcome))
    /\ br_pc' = "synthesize"
    /\ UNCHANGED <<br_context, br_news, br_ret, notBriefing>>

\* steps 4 and 5 and the result
Synthesize ==
    /\ br_pc = "synthesize"
    /\ \E synthesized \in BriefingResults,
          relationship_summary \in
              (IF br_context.total_interactions > 0 THEN {"", "summary"} ELSE {""}) :
           br_ret' = BriefingReturned(br_context, br_news, br_industry, synthesized,
                                      relationship_summary)
    /\ br_events' = Append(br_events, [e |-> "llm"])
    /\ br_pc' = "done"
    /\ UNCHANGED <<br_context, br_news, br_industry, notBriefing>>

BriefingNext ==
    \/ SearchMemory
    \/ SearchMemoryRaises
    \/ SearchNews
    \/ SearchIndustry
    \/ Synthesize

SpecBriefing == BriefingInit /\ [][BriefingNext]_vars

\* the search returned no source and reported no error
ZeroSources(result) ==
    result # <<>> /\ EGet(result, "sources") = <<>> /\ "error" \notin DOMAIN result

\* the result of a request that failed: an exception, a step in error, or the
\* text of _error_result
ErrorState(ret) ==
    \/ ret.k # "dict"
    \/ \E step \in DOMAIN ret.reasoning_steps : ret.reasoning_steps[step] = "error"
    \/ ret.result \in {ErrorText("No company name provided."), ErrorText("Unknown scenario"),
                       ErrorText("agent raised")}

CreditsOf(ret) ==
    (IF ret.past_interactions.total > 0 THEN 30 ELSE 0)
    + (IF Len(ret.linkup_sources) >= 3 THEN 30
       ELSE IF Len(ret.linkup_sources) >= 1 THEN 15 ELSE 0)
    + (IF EGet(ret.briefing_data, "talking_points") # <<>> THEN 30 ELSE 0)
    + (IF ret.past_interactions.last_contact # NoDate THEN 10 ELSE 0)

\* C16: for every memory context, source list and briefing,
\* _calculate_confidence returns a value in [0,1] equal to the sum of the
\* credits that apply: 0.30 if memory has at least one interaction, 0.30 for
\* three or more web sources or else 0.15 for at least one, 0.30 if the
\* briefing has talking points, and 0.10 if a last contact exists.
C16_ConfidenceIsSumOfCredits ==
    (br_pc = "done" /\ br_ret.k = "dict") =>
        /\ br_ret.confidence \in 0..100
        /\ br_ret.confidence = CreditsOf(br_ret)

C16_Witness ==
    /\ br_pc = "done" /\ br_ret.k = "dict"
    /\ br_context.total_interactions > 0
    /\ br_context.last_contact # NoDate
    /\ Len(br_ret.linkup_sources) >= 3
    /\ EGet(br_ret.briefing_data, "talking_points") # <<>>
    /\ br_ret.confidence = 100

\* C20: within one request, between any two successive calls to the external
\* web-search provider the pipeline waits the fixed rate-limit delay; this
\* holds for the entity-research loop of the email pipeline and for the news
\* search followed by the industry search of the meeting pipeline.
C20_MeetingSearchesArePaced == Paced(br_events)


\* ------------------------------------------- orchestrator, error isolation

\* process() has no branch for the scenario
UnknownScenario(scenario) ==
    scenario \notin {JStr("email"), JStr("document"), JStr("meeting")}

\* a meeting scenario whose parameters are a dict without a company name
MeetingWithoutCompany(classification, scenario) ==
    /\ scenario = JStr("meeting")
    /\ Get(classification, "params", JObj(EmptyMap)).k = "obj"
    /\ ScenarioParams(classification, scenario).k = "obj"
    /\ ~Truthy(Get(ScenarioParams(classification, scenario), "company_name", JStr("")))

\* the result process() returns for the scenario without calling an agent
TerminalError(classification, scenario) ==
    SetKey(_error_result(IF UnknownScenario(scenario) THEN "Unknown scenario"
                         ELSE "No company name provided."),
           "execution_time", JNum(0))

\* the last visit of the scenario among the iterations done so far
LastVisit(i) ==
    \A j \in (i + 1)..Len(route_log) : route_log[j].scenario # route_log[i].scenario

\* the scenarios of the list that are handled without an agent keep route()
\* going, call no agent and leave the terminal error result; every other
\* scenario has the result of its own processing
Isolated(list) ==
    /\ \A i \in 1..Len(list) :
           (UnknownScenario(list[i]) \/ MeetingWithoutCompany(route_class, list[i]))
           => /\ ~(route_pc = "raised" /\ route_i = i)
              /\ i <= Len(route_log) =>
                     /\ route_log[i].scenario = list[i]
                     /\ route_log[i].agent = "none"
                     /\ LastVisit(i) =>
                            route_results[list[i]] = TerminalError(route_class, list[i])
    /\ \A j \in 1..Len(route_log) :
           LastVisit(j) =>
               route_results[route_log[j].scenario]
                   = process(route_log[j].scenario,
                             ScenarioParams(route_class, route_log[j].scenario),
                             route_log[j].outcome)
    /\ route_pc = "returned" => route_ret.results = route_results

\* C17: a scenario of a routed request that is unknown, or a meeting with no
\* company name, gets a terminal error result and no agent (memory lookup, web
\* search, LLM) is called for it, route() goes on, and every other scenario
\* of the request has the result of its own processing.
C17_UnknownScenarioIsIsolated ==
    route_pc \in {"loop", "returned", "raised"} => Isolated(ScenarioList(route_class))

\* C17, for the classifications whose params value is a dict and whose
\* scenarios are hashable: there the statement holds.
C17_HashableScenarioIsIsolated ==
    LET list == ScenarioList(route_class) IN
    (/\ route_pc \in {"loop", "returned", "raised"}
     /\ Get(route_class, "params", JObj(EmptyMap)).k = "obj"
     /\ \A i \in 1..Len(list) : list[i].k \notin {"arr", "obj"})
    => Isolated(list)

\* C17, for process() called directly: an unknown scenario, or a meeting
\* whose input has no company name, returns the terminal error result and
\* calls no agent.
C17_DirectProcessIsTerminal ==
    route_pc = "processed" =>
        LET s == route_log[1].scenario IN
        /\ UnknownScenario(s) =>
               /\ route_log[1].agent = "none"
               /\ route_results[s] = TerminalError(route_class, s)
        /\ (s = JStr("meeting") /\ route_log[1].agent = "none") =>
               /\ ErrorShaped(route_results[s])
               /\ Failed(route_results[s])


\* ------------------------------------------- session store, concurrency

\* the file of a session, or its absence
FileOf(files, id) ==
    IF id \in DOMAIN files THEN [present |-> TRUE, session |-> files[id]]
    ELSE [present |-> FALSE]

\* the step belongs to the writer of the session: its append loads or saves,
\* or the session is created
WriterStep(id) ==
    \/ ses_pending'[id] # ses_pending[id]
    \/ id \in ses_used' \ ses_used

\* the step completes an append to the session
AppendCompletes(id) ==
    ses_pending[id].pc = "loaded" /\ ses_pending'[id] = WriterIdle

\* C18: with one writer per session, in every interleaving of create_session
\* and append calls on different sessions a step of one session's writer
\* leaves every other session's file as it is, a new session starts empty,
\* and a completed append leaves the session with the interactions its file
\* held at that moment followed by the appended one, numbered in order: each
\* session holds exactly the interactions appended to it, in its writer's
\* order.
C18_SessionsDoNotInterfere ==
    [][\A id \in SessionIds :
           /\ WriterStep(id) =>
                  \A other \in SessionIds \ {id} :
                      FileOf(ses_files', other) = FileOf(ses_files, other)
           /\ id \in ses_used' \ ses_used =>
                  /\ id \in DOMAIN ses_files'
                  /\ ses_files'[id].interactions = <<>>
           /\ AppendCompletes(id) =>
                  /\ id \in DOMAIN ses_files /\ id \in DOMAIN ses_files'
                  /\ ses_files'[id].interactions
                         = Append(ses_files[id].interactions,
                                  [id |-> Len(ses_files[id].interactions) + 1,
                                   user_query |-> ses_pending[id].user_query])]_vars

\* C18, the state behind it: what a writer loaded is still what the
\* session's file holds when it saves
C18_LoadedSessionIsCurrent ==
    \A id \in SessionIds :
        ses_pending[id].pc = "loaded" =>
            /\ id \in DOMAIN ses_files
            /\ ses_pending[id].session = ses_files[id]

\* two appends in flight at once on different sessions that already hold
\* interactions, after an append to one of them has completed
C18_Witness ==
    /\ \A id \in SessionIds :
           /\ ses_pending[id].pc = "loaded"
           /\ id \in DOMAIN ses_files
           /\ Len(ses_files[id].interactions) >= 1
    /\ ses_pending["s1"].user_query # ses_pending["s2"].user_query
    /\ ses_files["s1"].interactions # ses_files["s2"].interactions
    /\ ses_ret.op = "append" /\ "interaction_num" \in DOMAIN ses_ret

\* ------------------------------------------------- reply post-processing
\* EmailIntelligenceAgent._improve_draft. A draft is a sequence of segments:
\* a run of words that holds no cliche, or one of the listed cliches, which
\* the substitution removes; a cliche followed by punctuation ("Best
\* regards,") leaves the punctuation behind as a word of its own. A text
\* the method handles after the cleaning is known by its number of words.

TooShort == 80
TooLong == 200
BandLow == 100
BandHigh == 150
MaxSegments == 2

Run(n) == [cliche |-> FALSE, words |-> n]
Cliche(residue) == [cliche |-> TRUE, words |-> residue]
Segments ==
    {Run(n) : n \in {79, 80, 120, 200, 201, 260}} \cup {Cliche(0), Cliche(1)}
Drafts == SeqsUpTo(Segments, MaxSegments)

DraftText(n) == [k |-> "text", words |-> n]
None == [k |-> "none"]

\* the words left of the draft after the cliches are removed and the
\* whitespace is collapsed (lines 407-419)
RECURSIVE CleanedWords(_)
CleanedWords(draft) ==
    IF draft = <<>> THEN 0 ELSE Head(draft).words + CleanedWords(Tail(draft))

\* what self.groq.chat returns: the content of the completion, which the
\* provider may leave out (None), or None with the text of the exception
ChatContent(content) == [content |-> content, error |-> ""]
ChatError(message) == [content |-> None, error |-> message]
ChatReplies ==
    {ChatContent(DraftText(n)) : n \in {0, 99, 100, 150, 151, 260}}
    \cup {ChatContent(None), ChatError("timeout"), ChatError("")}

\* lines 438-439 and 457-458: the reply replaces the draft unless it
\* reports an error
Accept(improved, response) ==
    IF response.error = "" THEN response.content ELSE improved

DraftInit ==
    /\ dr_draft \in Drafts
    /\ dr_pc = "ready"
    /\ dr_improved = None
    /\ dr_word_count = 0
    /\ dr_ret = None
    /\ TriIdle /\ GateIdle /\ ParseIdle /\ AttrIdle /\ RouterIdle /\ RouteIdle /\ SesIdle /\ SortIdle /\ LinkupIdle /\ EmailIdle /\ RecallIdle /\ BriefingIdle /\ CascadeIdle /\ RankIdle /\ SynthesisIdle

\* lines 407-419: the cliches are removed and the words counted
DraftClean ==
    /\ dr_pc = "ready"
    /\ dr_improved' = DraftText(CleanedWords(dr_draft))
    /\ dr_word_count' = CleanedWords(dr_draft)
    /\ dr_pc' = "cleaned"
    /\ UNCHANGED <<dr_draft, dr_ret, notDraft>>

\* line 460: return improved.strip(), which raises for None
DraftReturn(improved) ==
    /\ dr_improved' = improved
    /\ dr_ret' = IF improved = None THEN [k |-> "raised", error |-> "AttributeError"]
                 ELSE improved
    /\ dr_pc' = "returned"
    /\ UNCHANGED <<dr_draft, dr_word_count, notDraft>>

\* lines 422-439: the draft is too short and the LLM is asked to expand it
DraftExpand ==
    /\ dr_pc = "cleaned"
    /\ dr_word_count < TooShort
    /\ \E response \in ChatReplies : DraftReturn(Accept(dr_improved, response))

\* lines 442-458: the draft is too long and the LLM is asked to shorten it
DraftShorten ==
    /\ dr_pc = "cleaned"
    /\ ~(dr_word_count < TooShort)
    /\ dr_word_count > TooLong
    /\ \E response \in ChatReplies : DraftReturn(Accept(dr_improved, response))

\* neither branch is taken
DraftKeep ==
    /\ dr_pc = "cleaned"
    /\ ~(dr_word_count < TooShort)
    /\ ~(dr_word_count > TooLong)
    /\ DraftReturn(dr_improved)

DraftNext ==
    \/ DraftClean
    \/ DraftExpand
    \/ DraftShorten
    \/ DraftKeep

SpecDraft == DraftInit /\ [][DraftNext]_vars

InBand(text) == text.k = "text" /\ text.words \in BandLow..BandHigh

\* C19: whenever the cleaned draft has more words than the upper length
\* bound, the draft _improve_draft returns has a word count inside the band
\* of 100 to 150 words, whatever the LLM service replies to the shorten
\* request, an error included.
C19_ShortenedDraftIsInBand ==
    (dr_pc = "returned" /\ dr_word_count > TooLong) => InBand(dr_ret)

\* C19, what the code does ensure: a draft that was too long is returned as
\* the LLM's reply, whatever its length, and unchanged when the reply
\* reports an error
C19_ShortenedDraftIsTheReply ==
    (dr_pc = "returned" /\ dr_word_count > TooLong) =>
        \E response \in ChatReplies :
            /\ dr_improved = Accept(DraftText(dr_word_count), response)
            /\ dr_ret.k = "text" => dr_ret = dr_improved

\* ------------------------------------------- the parse cascade, by attempt
\* _parse_briefing_json one attempt at a time. cas_log holds the attempts
\* made, in order, each with its outcome; the fourth is the corrective chat
\* call.

\* lines 433-439: the content stripped, the fence lines dropped
Cleaned(content) ==
    LET c0 == Strip(content)
    IN IF c0 # <<>> /\ c0[1] = Fence THEN DropFenceLines(c0) ELSE c0

\* the span from the first opening to the last closing brace
Span(cleaned) == Slice(cleaned, Find(cleaned, "{"), RFind(cleaned, "}"))
\* the conditions of lines 450 and 457
HasBraces(cleaned) == Find(cleaned, "{") # 0 /\ RFind(cleaned, "}") # 0
SpanInOrder(cleaned) == HasBraces(cleaned) /\ RFind(cleaned, "}") > Find(cleaned, "{")

\* lines 459-463: the span with the trailing commas removed and the line
\* breaks escaped
Fixed(cleaned) == EscapeNewlines(RemoveTrailingCommas(Span(cleaned)))

Attempt(stage, ok) == [stage |-> stage, ok |-> ok]

\* Every attempt is followed by the next one, whatever its outcome.
NextAttemptNoStop(pc, ok) ==
    CASE pc = "direct" -> "span"
      [] pc = "span" -> "repair"
      [] pc = "repair" -> "fix"
      [] OTHER -> "done"

\* where the method goes after an attempt: it returns on success, and falls
\* through to the next attempt on failure
NextAttempt(pc, ok) ==
    IF ok THEN "done"
    ELSE CASE pc = "direct" -> "span"
           [] pc = "span" -> "repair"
           [] pc = "repair" -> "fix"
           [] OTHER -> "done"

CascadeInit ==
    /\ cas_content \in BriefingContents
    /\ cas_fix \in FixReplies
    /\ cas_pc = "direct"
    /\ cas_log = <<>>
    /\ cas_ret = [k |-> "none"]
    /\ TriIdle /\ GateIdle /\ ParseIdle /\ AttrIdle /\ RouterIdle /\ RouteIdle /\ SesIdle /\ SortIdle /\ LinkupIdle /\ EmailIdle /\ RecallIdle /\ BriefingIdle /\ DraftIdle /\ RankIdle /\ SynthesisIdle

\* an attempt with the result parsed: logged, and returned when it succeeded
Attempted(stage, parsed) ==
    /\ cas_log' = Append(cas_log, Attempt(stage, parsed.ok))
    /\ cas_pc' = NextAttempt(cas_pc, parsed.ok)
    /\ cas_ret' = IF cas_ret.k = "none" /\ parsed.ok
                  THEN [k |-> "value", v |-> parsed.v, stage |-> stage]
                  ELSE cas_ret
    /\ UNCHANGED <<cas_content, cas_fix, notCascade>>

\* an attempt whose condition does not hold is left out
LeftOut ==
    /\ cas_pc' = NextAttempt(cas_pc, FALSE)
    /\ UNCHANGED <<cas_content, cas_fix, cas_log, cas_ret, notCascade>>

\* lines 441-445: the direct parse
CascadeDirect ==
    /\ cas_pc = "direct"
    /\ \E parsed \in {Loads(Cleaned(cas_content))} : Attempted(1, parsed)

\* lines 447-454: the span between the outermost braces
CascadeSpan ==
    /\ cas_pc = "span"
    /\ \E cleaned \in {Cleaned(cas_content)} :
           IF SpanInOrder(cleaned)
           THEN \E parsed \in {Loads(Span(cleaned))} : Attempted(2, parsed)
           ELSE LeftOut

\* lines 456-466: the syntactic repair
CascadeRepair ==
    /\ cas_pc = "repair"
    /\ \E cleaned \in {Cleaned(cas_content)} :
           IF HasBraces(cleaned)
           THEN \E parsed \in {Loads(Fixed(cleaned))} : Attempted(3, parsed)
           ELSE LeftOut

\* lines 468-485: the corrective chat call
CascadeFix ==
    /\ cas_pc = "fix"
    /\ \E parsed \in {FixAttempt(cas_fix)} : Attempted(4, parsed)

\* lines 487-495: the empty structure
CascadeFallback ==
    /\ cas_pc = "done"
    /\ cas_ret.k = "none"
    /\ cas_ret' = [k |-> "value", v |-> EmptyBriefing, stage |-> 5]
    /\ UNCHANGED <<cas_content, cas_fix, cas_pc, cas_log, notCascade>>

CascadeNext ==
    \/ CascadeDirect
    \/ CascadeSpan
    \/ CascadeRepair
    \/ CascadeFix
    \/ CascadeFallback

SpecCascade == CascadeInit /\ [][CascadeNext]_vars

FixCalls == Cardinality({i \in DOMAIN cas_log : cas_log[i].stage = 4})

\* C21: the attempts are made in the order direct parse, brace span,
\* syntactic repair, LLM correction; none follows an attempt that succeeded;
\* the corrective call is made at most once, and only when the direct parse
\* was tried and failed and neither the span nor the repair succeeded.
C21_CascadeInOrderOneCorrection ==
    /\ \A i, j \in DOMAIN cas_log : i < j => cas_log[i].stage < cas_log[j].stage
    /\ \A i \in DOMAIN cas_log : cas_log[i].ok => i = Len(cas_log)
    /\ cas_log # <<>> => cas_log[1].stage = 1
    /\ FixCalls <= 1
    /\ \A i \in DOMAIN cas_log :
           cas_log[i].stage = 4 =>
               /\ \A j \in 1..(i - 1) : ~cas_log[j].ok
               /\ ~Loads(Cleaned(cas_content)).ok
               /\ SpanInOrder(Cleaned(cas_content)) =>
                      \E j \in 1..(i - 1) : cas_log[j].stage = 2
               /\ HasBraces(Cleaned(cas_content)) =>
                      \E j \in 1..(i - 1) : cas_log[j].stage = 3
    /\ cas_ret.k = "value" =>
           /\ cas_ret.v = ParseBriefingJson(cas_content, cas_fix).v
           /\ cas_ret.stage = ParseBriefingJson(cas_content, cas_fix).stage
           /\ FixCalls = ParseBriefingJson(cas_content, cas_fix).fix_calls

\* all three local attempts failed, and the corrective call gave the value
C21_Witness ==
    /\ cas_ret.k = "value" /\ cas_ret.stage = 4
    /\ [i \in DOMAIN cas_log |-> cas_log[i].stage] = <<1, 2, 3, 4>>
    /\ cas_ret.v # EmptyBriefing


\* the content is a JSON object on several lines, it does not parse as it
\* is, and it does once its trailing commas are removed
TrailingCommaOnly(content) ==
    LET cleaned == Cleaned(content)
        intended == Loads(RemoveTrailingCommas(cleaned))
    IN /\ ~Loads(cleaned).ok
       /\ intended.ok /\ intended.v.k = "obj"
       /\ \E i \in DOMAIN cleaned : cleaned[i] = NL

\* a line break is left in the span once the trailing commas are removed
BreakLeft(content) ==
    LET kept == RemoveTrailingCommas(Span(Cleaned(content)))
    IN \E i \in DOMAIN kept : kept[i] = NL

\* C25: a reply that is a JSON object on several lines with a trailing comma
\* before a closing brace or bracket as its only defect is parsed by the
\* syntactic repair to the object it was meant to be, and no corrective call
\* is made.
C25_TrailingCommaRepairedLocally ==
    (cas_ret.k = "value" /\ TrailingCommaOnly(cas_content)) =>
        /\ cas_ret.stage = 3
        /\ cas_ret.v = Loads(RemoveTrailingCommas(Cleaned(cas_content))).v
        /\ FixCalls = 0

\* C25, where the repair does work: the only line breaks of the object are
\* the ones between a trailing comma and the closing brace or bracket.
C25_RepairedWhenNoBreakIsLeft ==
    (cas_ret.k = "value" /\ TrailingCommaOnly(cas_content) /\ ~BreakLeft(cas_content)) =>
        /\ cas_ret.stage = 3
        /\ cas_ret.v = Loads(RemoveTrailingCommas(Cleaned(cas_content))).v
        /\ FixCalls = 0

\* C25, the repair undone: with a line break left between two tokens the
\* repaired text does not parse and the corrective call is made.
C25_BreakLeftDefeatsRepair ==
    (cas_ret.k = "value" /\ TrailingCommaOnly(cas_content) /\ BreakLeft(cas_content)) =>
        /\ cas_ret.stage \in {4, 5}
        /\ FixCalls = 1

\* --------------------------------------- relevance filter, thread dedupe
\* _filter_emails, _filter_conversations and _dedupe_emails applied to a
\* list of candidate records.

S_Re_Fwd_Acme_pricing == <<"R", "e", ":", " ", "F", "w", "d", ":", " ", "A", "c", "m", "e", " ", "p", "r", "i", "c", "i", "n", "g">>

\* a reply to a forwarded message of the pricing thread, the newest of it
Nested == Email([subject |-> S_Re_Fwd_Acme_pricing, from |-> S_jane_at_acme], IsoString(18, ""))

MaxListed == 4
ListedEmails == {Pricing, PricingOld, Nested, Build, Renewal}
ListedConversations == {Kickoff, Standup, Dentist}
RankNow == {At(RecentAge - ClockStep), At(4 * PartialAge)}

RankInit ==
    /\ \/ /\ rk_kind = "emails"
          /\ \E records \in SeqsUpTo(ListedEmails, MaxListed) :
                 rk_records = Numbered(records, 0)
       \/ /\ rk_kind = "conversations"
          /\ \E records \in SeqsUpTo(ListedConversations, MaxListed) :
                 rk_records = Numbered(records, 0)
    /\ rk_now \in RankNow
    /\ rk_pc = "ready"
    /\ rk_out = [op |-> "none"]
    /\ TriIdle /\ GateIdle /\ ParseIdle /\ AttrIdle /\ RouterIdle /\ RouteIdle /\ SesIdle /\ SortIdle /\ LinkupIdle /\ EmailIdle /\ RecallIdle /\ BriefingIdle /\ DraftIdle /\ CascadeIdle /\ SynthesisIdle

Ranked(op, result) ==
    /\ rk_out' = [op |-> op, raised |-> result.raised, value |-> result.value]
    /\ rk_pc' = "done"
    /\ UNCHANGED <<rk_kind, rk_records, rk_now, notRank>>

FilterEmails ==
    /\ rk_pc = "ready" /\ rk_kind = "emails"
    /\ \E result \in {_filter_emails(S_Acme, rk_records, rk_now)} :
           Ranked("_filter_emails", result)

FilterConversations ==
    /\ rk_pc = "ready" /\ rk_kind = "conversations"
    /\ \E result \in {_filter_conversations(S_Acme, rk_records, rk_now)} :
           Ranked("_filter_conversations", result)

DedupeEmails ==
    /\ rk_pc = "ready" /\ rk_kind = "emails"
    /\ \E result \in {_dedupe_emails(rk_records)} : Ranked("_dedupe_emails", result)

RankNext ==
    \/ FilterEmails
    \/ FilterConversations
    \/ DedupeEmails

SpecRank == RankInit /\ [][RankNext]_vars

\* a subject with every leading reply or forward prefix removed, in lower
\* case, its whitespace collapsed: the thread of the message
RECURSIVE Unprefixed(_)
Unprefixed(cleaned) ==
    IF PrefixEnd(cleaned) = 0 THEN cleaned
    ELSE Unprefixed(SubSeq(cleaned, PrefixEnd(cleaned) + 1, Len(cleaned)))
ThreadOf(record) ==
    CollapseBlanks(Unprefixed(Lower(Or(EGet(record, "subject"), EGet(record, "title")))))

Deduped == rk_pc = "done" /\ rk_out.op = "_dedupe_emails" /\ rk_out.raised = "none"

\* of every thread among the records exactly one record is returned, and no
\* record of the thread is more recent than it
OnePerThreadMostRecent ==
    \A i \in DOMAIN rk_records :
        \E k \in DOMAIN rk_out.value :
            /\ ThreadOf(rk_out.value[k]) = ThreadOf(rk_records[i])
            /\ \A l \in DOMAIN rk_out.value :
                   ThreadOf(rk_out.value[l]) = ThreadOf(rk_records[i]) => l = k
            /\ \E j \in DOMAIN rk_records : rk_records[j] = rk_out.value[k]
            /\ \A j \in DOMAIN rk_records :
                   ThreadOf(rk_records[j]) = ThreadOf(rk_records[i]) =>
                       SortKey(rk_records[j]).t <= SortKey(rk_out.value[k]).t

\* C23: records whose subjects differ only by reply and forward prefixes,
\* one or several, by letter case and by whitespace are one thread for
\* _dedupe_emails: it returns exactly one record per thread, the most recent
\* one of the thread.
C23_OnePerThread == Deduped => OnePerThreadMostRecent

\* C23, for subjects with at most one prefix: there the key of the dedupe is
\* the thread, and the statement holds.
C23_OnePerThreadUpToOnePrefix ==
    (Deduped /\ \A i \in DOMAIN rk_records :
                    ThreadKey(rk_records[i]).subject = ThreadOf(rk_records[i]))
        => OnePerThreadMostRecent


Filtered == rk_pc = "done" /\ rk_out.op \in {"_filter_emails", "_filter_conversations"}

\* the score the filter gives the record
ScoreOf(record) ==
    IF rk_kind = "emails" THEN _score_email(S_Acme, record, rk_now)
    ELSE _score_conversation(S_Acme, record, rk_now)

\* the list returned holds every record at or above the threshold or, when
\* there is none, as many of the highest-scoring records as there are, up
\* to three
ThresholdOrTop ==
    LET returned == {rk_out.value[k].id : k \in DOMAIN rk_out.value}
        scores == [i \in DOMAIN rk_records |-> ScoreOf(rk_records[i])]
        qualified == {rk_records[i].id : i \in {i \in DOMAIN rk_records :
                                                  scores[i] >= ScoreThreshold}}
    IN /\ rk_out.value # <<>>
       /\ Cardinality(returned) = Len(rk_out.value)
       /\ \A k \in DOMAIN rk_out.value :
              \E i \in DOMAIN rk_records : rk_records[i] = rk_out.value[k]
       /\ qualified # {} => returned = qualified
       /\ qualified = {} =>
              /\ Len(rk_out.value) = Min(FallbackSize, Len(rk_records))
              /\ \A i, j \in DOMAIN rk_records :
                     (rk_records[i].id \in returned /\ rk_records[j].id \notin returned)
                         => scores[i] >= scores[j]

\* C24: for a non-empty list of candidates _filter_emails and
\* _filter_conversations return a non-empty list: all the records at or
\* above the threshold, or, when none reaches it, the up to three
\* highest-scoring records.
C24_FilterKeepsSomething ==
    (Filtered /\ rk_records # <<>>) => (rk_out.raised = "none" /\ ThresholdOrTop)

\* C24, whenever the filter returns: the selection is as stated.
C24_FilterKeepsSomethingWhenItReturns ==
    (Filtered /\ rk_records # <<>> /\ rk_out.raised = "none") => ThresholdOrTop

\* C24, when the filter does not return: its final sort met dates with and
\* without an offset among the records selected.
C24_FilterRaisesOnMixedDates ==
    (Filtered /\ rk_out.raised # "none") =>
        \E i, j \in DOMAIN rk_records :
            SortKey(rk_records[i]).aware # SortKey(rk_records[j]).aware


\* the calls of the gate and of the search provider, in order, without the
\* sleeps and the draft
GateAndSearchCalls == SelectSeq(em_events, LAMBDA ev : ev.e \in {"gate", "search"})
GateCalls == Len(SelectSeq(em_events, LAMBDA ev : ev.e = "gate"))
SearchCalls == Len(SelectSeq(em_events, LAMBDA ev : ev.e = "search"))
\* research_all_entities counts every entity in self.stats, analyze_email
\* counts none there
InAnalyzeEmail == em_pc # "research_all_entities" /\ em_run.stats.total_entities = 0

\* every search comes straight after the gate's answer for the same entity,
\* and that answer did not say needs_search = false
SearchFollowsGate(calls) ==
    \A j \in DOMAIN calls :
        calls[j].e = "search" =>
            /\ j > 1
            /\ calls[j - 1].e = "gate"
            /\ calls[j - 1].name = calls[j].name
            /\ calls[j - 1].said # "false"

\* after a verdict that said one of these the search is made, unless the
\* call ended in an exception
NotSuppressed(calls, said) ==
    \A i \in DOMAIN calls :
        (calls[i].e = "gate" /\ calls[i].said \in said) =>
            \/ /\ i < Len(calls)
               /\ calls[i + 1].e = "search"
               /\ calls[i + 1].name = calls[i].name
            \/ i = Len(calls) /\ em_ret.k = "raised"

GateBudget ==
    /\ InAnalyzeEmail =>
           GateCalls <= Len(Triage.critical) + Min(ValidationCap, Len(Triage.validation))
    /\ SearchCalls <= GateCalls

\* C26: in analyze_email a web search for an entity is issued only after the
\* Knowledge Gate has answered for that entity in the same run and its
\* verdict did not say needs_search = false; a verdict that is missing
\* needs_search or carries a null value never suppresses the search; the
\* number of gate calls never exceeds |critical| + min(2, |validation|), and
\* the number of searches never the number of gate calls.
C26_BrokenGateNeverSuppresses ==
    InAnalyzeEmail =>
        /\ SearchFollowsGate(GateAndSearchCalls)
        /\ NotSuppressed(GateAndSearchCalls, {"missing", "null"})
        /\ GateBudget

\* What holds of C26: the order of gate and search, the two budgets, and the
\* search after a verdict that has no needs_search at all.
C26_MissingVerdictStillSearches ==
    /\ SearchFollowsGate(GateAndSearchCalls)
    /\ NotSuppressed(GateAndSearchCalls, {"missing"})
    /\ GateBudget

\* Where C26 fails: "not assessment.get('needs_search', True)" is true of a
\* needs_search that is null, so no search follows such a verdict.
C26_NullVerdictSuppresses ==
    \A i \in DOMAIN GateAndSearchCalls :
        (GateAndSearchCalls[i].e = "gate" /\ GateAndSearchCalls[i].said = "null") =>
            (i = Len(GateAndSearchCalls) \/ GateAndSearchCalls[i + 1].e = "gate")

C26_NullVerdictSeen ==
    /\ em_pc = "done" /\ em_ret.k = "dict" /\ "stats" \in DOMAIN em_ret
    /\ \E i \in DOMAIN em_events : em_events[i].e = "gate" /\ em_events[i].said = "null"
    /\ SearchCalls > 0


\* the five lists of entity_decisions, one after the other
AllDecisions(entity_decisions) ==
    entity_decisions.skipped_self_reference \o entity_decisions.skipped_generic
        \o entity_decisions.used_knowledge \o entity_decisions.searched_unknown
        \o entity_decisions.searched_validation

\* C27: in every result of analyze_email the entity accounting is conserved:
\* each extracted entity is counted in exactly one of skipped_self_reference,
\* skipped_generic, used_knowledge, searched_unknown and searched_validation
\* (every name is in the five lists together as often as it was extracted),
\* so total_entities_processed + skipped = total_entities_detected,
\* searches_avoided = potential_searches - actual_searches >= 0, and
\* efficiency_rate lies in 0..100.
C27_EntityAccountingConserved ==
    (em_pc = "done" /\ em_ret.k = "dict" /\ "stats" \in DOMAIN em_ret) =>
        LET stats == em_ret.stats
            counted == AllDecisions(stats.entity_decisions)
            extracted == Names(em_entities)
        IN /\ Len(counted) = Len(extracted)
           /\ \A name \in Range(extracted) : Count(name, counted) = Count(name, extracted)
           /\ stats.total_entities_processed + stats.entities_skipped_self_reference
                  + stats.entities_skipped_generic = stats.total_entities_detected
           /\ stats.total_entities_detected = Len(em_entities)
           /\ stats.efficiency.searches_avoided
                  = stats.efficiency.potential_searches - stats.efficiency.actual_searches
           /\ stats.efficiency.searches_avoided >= 0
           /\ stats.efficiency.efficiency_rate \in 0..1000

C27_Witness ==
    /\ em_pc = "done" /\ em_ret.k = "dict" /\ "stats" \in DOMAIN em_ret
    /\ em_ret.stats.entities_skipped_self_reference > 0
    /\ em_ret.stats.entities_skipped_generic > 0
    /\ em_ret.stats.entities_used_knowledge > 0
    /\ em_ret.stats.entities_searched_critical > 0
    /\ em_ret.stats.entities_searched_validation > 0
    /\ em_ret.stats.efficiency.efficiency_rate = 600


\* get_interaction(session_id, interaction_id), lines 94-102: the first
\* interaction of the session that carries the id, if any
get_interaction(session, interaction_id) ==
    LET found == {i \in DOMAIN session.interactions :
                     session.interactions[i].id = interaction_id}
    IN IF found = {} THEN [k |-> "none"]
       ELSE [k |-> "interaction",
             ix |-> session.interactions[CHOOSE i \in found : \A j \in found : i <= j]]

\* C28: after any sequence of create_session and append calls under one
\* writer per session, the interactions of a session carry the ids 1, 2, ...,
\* n in list order with no gap or duplicate (so get_interaction finds the
\* k-th interaction under the id k and nothing under any other id), and each
\* append returns the 1-based ordinal of the interaction it added, equal to
\* the list length after the append.
C28_IdsAreOrdinals ==
    /\ \A id \in DOMAIN ses_files :
           LET session == ses_files[id]
               n == Len(session.interactions)
           IN /\ \A i \in 1..n : session.interactions[i].id = i
              /\ \A k \in 0..(n + 1) :
                     get_interaction(session, k)
                         = IF k \in 1..n
                           THEN [k |-> "interaction", ix |-> session.interactions[k]]
                           ELSE [k |-> "none"]
    /\ (ses_ret.op = "append" /\ "interaction_num" \in DOMAIN ses_ret) =>
           /\ ses_ret.session_id \in DOMAIN ses_files
           /\ ses_ret.interaction_num
                  = Len(ses_files[ses_ret.session_id].interactions)
           /\ ses_ret.interaction_num >= 1

\* the second append to one session has returned 2 while the other session
\* holds one interaction
C28_Witness ==
    /\ ses_ret.op = "append" /\ "interaction_num" \in DOMAIN ses_ret
    /\ ses_ret.interaction_num = 2
    /\ \E id \in DOMAIN ses_files \ {ses_ret.session_id} :
           Len(ses_files[id].interactions) = 1
    /\ \A id \in SessionIds : ses_pending[id] = WriterIdle


\* the scenarios the orchestrator can dispatch
Vocabulary == {"meeting", "email", "document"}

\* primary_scenario is one of the scenarios, and every scenario is a tag of
\* the vocabulary
WellTagged(result) ==
    /\ Has(result, "scenarios") /\ Has(result, "primary_scenario")
    /\ result.m["scenarios"].k = "arr"
    /\ \A i \in DOMAIN result.m["scenarios"].a :
           \E tag \in Vocabulary : result.m["scenarios"].a[i] = JStr(tag)
    /\ \E i \in DOMAIN result.m["scenarios"].a :
           result.m["scenarios"].a[i] = result.m["primary_scenario"]

\* C29: for every result of RouterAgent.classify, on the LLM path as on the
\* fallback path, primary_scenario is a member of the scenarios list and
\* every scenario tag is one of the fixed vocabulary meeting, email, document.
C29_ResultInVocabulary ==
    router_pc = "done" => WellTagged(router_ret)

\* What holds of C29: a result of the except branch, and a result whose
\* scenarios the validation of lines 88-90 replaced, is well tagged; the
\* scenarios and the primary scenario of a reply that gave both are returned
\* as the reply gave them.
C29_FallbackInVocabulary ==
    router_pc = "done" =>
        LET parsed == RouterParse(router_resp) IN
        /\ Has(router_ret, "router_error") => WellTagged(router_ret)
        /\ (~Has(router_ret, "router_error")
                /\ (~Has(parsed.v, "scenarios") \/ ~Truthy(parsed.v.m["scenarios"]))) =>
               WellTagged(router_ret)
        /\ (~Has(router_ret, "router_error") /\ Has(parsed.v, "scenarios")
                /\ Truthy(parsed.v.m["scenarios"])) =>
               /\ router_ret.m["scenarios"] = parsed.v.m["scenarios"]
               /\ Has(parsed.v, "primary_scenario") =>
                      router_ret.m["primary_scenario"] = parsed.v.m["primary_scenario"]

\* ------------------------------------------------- briefing synthesis
\* MeetingAgent._synthesize_briefing and the rest of prepare_briefing after
\* it, one step at a time: the chat call, the parse of its content, the
\* filling of the empty fields and the formatting, the fallback briefing, and
\* the result with its confidence. briefing_data is the JSON value the code
\* holds.

TalkingPointsList == <<"[", "ask about funding", ",", "agree on next steps", "]">>
WithTalkingPoints(value) == <<"{", "talking_points", ":">> \o value \o <<"}">>

\* the contents of the synthesis reply: the requested object, objects whose
\* talking_points or recent_news have another shape, JSON that is no object,
\* malformed JSON, prose, and blank content
SynthesisContents ==
    {Briefing,
     <<"{", "company_overview", ":", "Acme builds robots", ",", "recent_news", ":",
       "Acme raises Series B", ",", "talking_points", ":">> \o TalkingPointsList \o <<"}">>,
     <<"{", "recent_news", ":", "Unable to fetch news", ",", "talking_points", ":">>
         \o TalkingPointsList \o <<"}">>,
     <<"{", "recent_news", ":", "[", "Acme raises Series B", "]", ",",
       "talking_points", ":">> \o TalkingPointsList \o <<"}">>,
     WithTalkingPoints(<<"ask about funding">>),
     WithTalkingPoints(<<"{", "first", ":", "ask about funding", "}">>),
     WithTalkingPoints(<<"7">>),
     WithTalkingPoints(<<"true">>),
     WithTalkingPoints(<<"null">>),
     WithTalkingPoints(<<"[", "]">>),
     WithTalkingPoints(<<"">>),
     <<"{", "}">>,
     <<"[", "ask about funding", "]">>,
     <<"7">>,
     <<"{", "talking_points", ":", "[", "ask about funding", ",", "]", ",", "}">>,
     <<"{", "talking_points", ":", "[", "ask about funding", "]">>,
     <<"Here", SP>> \o WithTalkingPoints(<<"ask about funding">>),
     <<"sorry">>,
     <<SP>>,
     <<>>}

SynthesisReplies ==
    {Raises, Reply("rate limit", NoneContent), Reply("", NoContent)}
    \cup {Reply("", Text(c)) : c \in SynthesisContents}

SynthesisFixReplies ==
    {Raises, Reply("", Text(Briefing)),
     Reply("", Text(WithTalkingPoints(<<"ask about funding">>))),
     Reply("", Text(<<"sorry">>))}

SynthesisContexts == {c \in MemoryContexts : c.total_interactions \in {0, 2}}

\* what _search_news and _search_industry gave
SynthesisSources ==
    {[news |-> <<>>, industry |-> <<>>],
     [news |-> <<SeriesB>>, industry |-> <<>>],
     [news |-> <<>>, industry |-> <<FundingRoundup, ShipsV2, MarketUpdate>>],
     [news |-> <<SeriesB>>, industry |-> <<FundingRoundup>>]}

\* lines 531-545: the data of the fallback briefing
FallbackData ==
    JObj([company_overview |-> JStr("An upcoming meeting is scheduled"),
          past_context |-> JStr("No prior interactions found."),
          recent_news |-> JStr("Recent news could not be retrieved at this time."),
          talking_points |->
              JArr(<<JStr("Open by referencing your most recent interaction"),
                     JStr("Ask about their current priorities"),
                     JStr("Explore areas of mutual interest"),
                     JStr("Align on clear next steps")>>),
          risks_and_notes |-> JStr("This briefing was generated with limited data.")])

\* lines 404-420: the defaults of the fields that are empty
DefaultTalkingPoints ==
    JArr(<<JStr("Open by referencing your recent interactions"),
           JStr("Discuss current priorities"),
           JStr("Explore specific collaboration opportunities"),
           JStr("Agree on clear next steps and a follow-up schedule")>>)

\* if not briefing_data.get(key): briefing_data[key] = default
FillField(briefing_data, key, default) ==
    IF Truthy(Get(briefing_data, key, JNull)) THEN briefing_data
    ELSE SetKey(briefing_data, key, default)

FillEmptyFields(briefing_data) ==
    FillField(FillField(FillField(briefing_data, "company_overview",
                                  JStr("is the subject of an upcoming meeting")),
                        "talking_points", DefaultTalkingPoints),
              "risks_and_notes", JStr("Some details may need verification."))

\* _format_briefing_text: enumerate(points) raises TypeError for a number
\* and for a boolean; a list, a string and a dict are iterated
FormatRaises(briefing_data) ==
    Get(briefing_data, "talking_points", JArr(<<>>)).k \in {"num", "bool", "null"}

SynthesisInit ==
    /\ syn_context \in SynthesisContexts
    /\ syn_sources \in SynthesisSources
    /\ syn_reply \in SynthesisReplies
    /\ syn_fix \in SynthesisFixReplies
    /\ syn_pc = "chat"
    /\ syn_briefing = <<>>
    /\ syn_ret = [k |-> "none"]
    /\ TriIdle /\ GateIdle /\ ParseIdle /\ AttrIdle /\ RouterIdle /\ RouteIdle /\ SesIdle /\ SortIdle /\ LinkupIdle /\ EmailIdle /\ RecallIdle /\ BriefingIdle /\ DraftIdle /\ CascadeIdle /\ RankIdle

\* lines 385-396: the chat call; an exception, and a content that is absent,
\* None or empty, lead to the fallback briefing
SynthesisChat ==
    /\ syn_pc = "chat"
    /\ syn_pc' = IF syn_reply.kind = "raise" THEN "fallback"
                 ELSE IF syn_reply.content.k # "text" \/ syn_reply.content.t = <<>>
                 THEN "fallback" ELSE "parse"
    /\ UNCHANGED <<syn_context, syn_sources, syn_reply, syn_fix, syn_briefing, syn_ret,
                   notSynthesis>>

\* lines 399-402: the content is parsed; a value that is no dict has no
\* get(), and the exception leads to the fallback briefing
SynthesisParse ==
    /\ syn_pc = "parse"
    /\ \E parsed \in {ParseBriefingJson(syn_reply.content.t, syn_fix).v} :
           IF parsed.k = "obj"
           THEN syn_briefing' = parsed /\ syn_pc' = "fill"
           ELSE syn_briefing' = syn_briefing /\ syn_pc' = "fallback"
    /\ UNCHANGED <<syn_context, syn_sources, syn_reply, syn_fix, syn_ret, notSynthesis>>

\* lines 402-426: the empty fields are filled and the text is formatted; an
\* exception of the formatting leads to the fallback briefing
SynthesisFill ==
    /\ syn_pc = "fill"
    /\ \E filled \in {FillEmptyFields(syn_briefing)} :
           IF FormatRaises(filled)
           THEN syn_briefing' = filled /\ syn_pc' = "fallback"
           ELSE syn_briefing' = filled /\ syn_pc' = "synthesized"
    /\ UNCHANGED <<syn_context, syn_sources, syn_reply, syn_fix, syn_ret, notSynthesis>>

\* lines 396 and 428-429, _fallback_briefing
SynthesisFallback ==
    /\ syn_pc = "fallback"
    /\ syn_briefing' = FallbackData
    /\ syn_pc' = "synthesized"
    /\ UNCHANGED <<syn_context, syn_sources, syn_reply, syn_fix, syn_ret, notSynthesis>>

\* the texts of recent_news that hold one of the bad markers
BadNewsTexts == {"Unable to fetch news"}

\* prepare_briefing, lines 122-139: recent news that is empty or holds a bad
\* marker is replaced
FixRecentNews(briefing_data, news) ==
    LET recent_news == Get(briefing_data, "recent_news", JNull)
        needs_news_fix == ~Truthy(recent_news) \/ recent_news.s \in BadNewsTexts
    IN IF ~needs_news_fix THEN briefing_data
       ELSE SetKey(briefing_data, "recent_news",
                   IF news # <<>> THEN JStr("summary of the sources")
                   ELSE JStr("No company-specific news was found"))

\* the briefing as _calculate_confidence reads it: talking_points is the
\* list, or the value that stands in its place
AsBriefing(briefing_data) ==
    LET talking_points == Get(briefing_data, "talking_points", JNull) IN
    [briefing_text |-> "briefing",
     briefing_data |->
         [talking_points |-> IF talking_points.k = "arr" THEN talking_points.a
                             ELSE IF Truthy(talking_points) THEN talking_points
                             ELSE <<>>]]

\* prepare_briefing, lines 122-179: the news is fixed, the relationship
\* summary put in, and the result returned with its confidence
SynthesisReturn ==
    /\ syn_pc = "synthesized"
    /\ \E relationship_summary \in
              (IF syn_context.total_interactions > 0 THEN {"", "summary"} ELSE {""}) :
       \E recent_news \in {Get(syn_briefing, "recent_news", JNull)} :
           IF Truthy(recent_news) /\ recent_news.k # "str"
           THEN /\ syn_ret' = [k |-> "raise", error |-> "AttributeError"]
                /\ syn_briefing' = syn_briefing
           ELSE \E fixed \in {FixRecentNews(syn_briefing, syn_sources.news)} :
                \E briefing_data \in
                       {IF relationship_summary = "" THEN fixed
                        ELSE SetKey(fixed, "past_context", JStr(relationship_summary))} :
                    /\ syn_briefing' = briefing_data
                    /\ syn_ret' =
                           [k |-> "dict",
                            result |-> "briefing",
                            briefing_data |-> briefing_data,
                            linkup_sources |-> syn_sources.news \o syn_sources.industry,
                            confidence |->
                                _calculate_confidence(
                                    syn_context,
                                    syn_sources.news \o syn_sources.industry,
                                    AsBriefing(briefing_data))]
    /\ syn_pc' = "done"
    /\ UNCHANGED <<syn_context, syn_sources, syn_reply, syn_fix, notSynthesis>>

SynthesisNext ==
    \/ SynthesisChat
    \/ SynthesisParse
    \/ SynthesisFill
    \/ SynthesisFallback
    \/ SynthesisReturn

SpecSynthesis == SynthesisInit /\ [][SynthesisNext]_vars

\* the briefing _synthesize_briefing has returned
Synthesised == syn_pc \in {"synthesized", "done"}
TalkingPoints == Get(syn_briefing, "talking_points", JNull)

\* C30: for every outcome of the LLM synthesis call (valid JSON, malformed
\* JSON, JSON of the wrong shape, empty content, error, exception) the
\* briefing produced by _synthesize_briefing has a non-empty talking_points
\* list, so every briefing that prepare_briefing returns has confidence >=
\* 0.3 even when memory, web search and the LLM all delivered nothing.
C30_TalkingPointsListNonEmpty ==
    /\ Synthesised => (TalkingPoints.k = "arr" /\ TalkingPoints.a # <<>>)
    /\ (syn_pc = "done" /\ syn_ret.k = "dict") => syn_ret.confidence >= 30

\* What holds of C30: the talking points of the briefing are never empty
\* (a non-empty list, or the non-empty string or dict the reply gave in its
\* place), and every briefing prepare_briefing returns has confidence >= 0.3.
C30_TalkingPointsNeverEmpty ==
    /\ Synthesised =>
           /\ Truthy(TalkingPoints)
           /\ TalkingPoints.k \in {"arr", "str", "obj"}
    /\ (syn_pc = "done" /\ syn_ret.k = "dict") =>
           /\ syn_ret.confidence >= 30
           /\ Truthy(Get(syn_ret.briefing_data, "talking_points", JNull))

\* Where C30 fails: talking points that are no list are those of the parsed
\* reply, which the filling of line 410 keeps because they are not empty.
C30_NonListIsTheRepliesOwn ==
    (Synthesised /\ TalkingPoints.k # "arr") =>
        /\ syn_reply.kind = "dict" /\ syn_reply.content.k = "text"
        /\ TalkingPoints
               = Get(ParseBriefingJson(syn_reply.content.t, syn_fix).v,
                     "talking_points", JNull)

====
